---- MODULE Spec2Model ----
(***************************************************************************)
(* Schema reconciliation scripts of GeniusERP: the type-mapping functions, *)
(* the database extractor, the declaration/column audits and the           *)
(* reconciler with its code generator, each as a state machine.            *)
(***************************************************************************)
EXTENDS Integers, Sequences, FiniteSets, TLC

VARIABLES
    col,        \* type mapping / code generators: the column descriptor handed in
    mapped,     \* type mapping / code generators: name -> what the call produced
    db_arch,    \* reconciler: DB_architecture.json as loaded
    dz_arch,    \* reconciler: DZ_architecture.json as loaded
    pc,         \* reconciler: the section of the script that runs next
    missing_tables,             \* reconciler: db_tables - dz_tables
    common_todo,                \* reconciler: sorted(common_tables) still to compare
    tables_with_missing_cols,   \* reconciler: table -> its missing-column entry
    total_missing_cols,         \* reconciler: running total of missing columns
    top5,                       \* reconciler: tables whose section is still to be written
    fragment,                   \* reconciler: what this run has written to its file handle
    output_file,                \* reconciler: MISSING_COLUMNS_CODE.txt on disk, item by item
    suspended,                  \* reconciler: the state of the run that is not executing
    db_lines,       \* audits: the lines of /tmp/db_columns_full.txt
    schema_files,   \* audits: schema file -> its table declarations
    a_pc,           \* column audit: what main does next
    files_todo,     \* column audit / exact check: schema files still to read
    tables_todo,    \* column audit / exact check: tables still to compare
    drizzle_columns,    \* column audit: the columns extracted from the current file
    report,         \* column audit: the report dict
    printed,        \* column audit / exact check: table -> the line printed for it
    v_pc,           \* exact check: what main does next
    all_drizzle_columns,    \* exact check: table -> declared column names
    tables_with_issues,     \* exact check: counter
    total_missing_columns,  \* exact check: counter
    catalog,        \* extractor: what each catalog query returns when it succeeds
    x_pc,           \* extractor: the section of the script that runs next
    failed,         \* extractor: the queries the channel failed
    all_tables,     \* extractor: the parsed table list
    by_table,       \* extractor: category -> table -> accepted rows
    architecture,   \* extractor: the architecture dict
    artifacts,      \* extractor: file name -> what was dumped into it
    x_printed,      \* extractor: category -> the count printed for it
    grep_stdout,    \* naming report: the lines grep printed for pgTable(
    naming_todo,    \* naming report: the lines still to scan
    naming_report,  \* naming report: the report dict
    naming_file,    \* naming report: table-naming-standardization.json
    n_pc,           \* naming report: what the function does next
    listed_items,   \* listings: the ordered items a report has to list
    listings,       \* listings: listing site -> what it rendered
    d_pc,           \* declaration extractor: what main does next
    d_todo,         \* declaration extractor: sorted(schema_files) still to scan
    d_all_tables,   \* declaration extractor: all_tables
    d_architecture, \* declaration extractor: the architecture dict
    applied,        \* pipelines: table -> columns whose statements were inserted
    prev_total      \* pipelines: the missing columns counted by the run before

mapVars == <<col, mapped>>

reconVars ==
    <<db_arch, dz_arch, pc, missing_tables, common_todo,
      tables_with_missing_cols, total_missing_cols, top5, fragment,
      output_file, suspended>>

fsVars == <<db_lines, schema_files>>

auditVars == <<a_pc, drizzle_columns, report>>

verifyVars == <<v_pc, all_drizzle_columns, tables_with_issues, total_missing_columns>>

loopVars == <<files_todo, tables_todo, printed>>

checkVars == <<fsVars, auditVars, verifyVars, loopVars>>

extractVars ==
    <<catalog, x_pc, failed, all_tables, by_table, architecture, artifacts,
      x_printed>>

reportVars ==
    <<grep_stdout, naming_todo, naming_report, naming_file, n_pc,
      listed_items, listings>>

declVars == <<d_pc, d_todo, d_all_tables, d_architecture>>

cycleVars == <<applied, prev_total>>

vars == <<col, mapped, db_arch, dz_arch, pc, missing_tables, common_todo,
          tables_with_missing_cols, total_missing_cols, top5, fragment,
          output_file, suspended,
          db_lines, schema_files, a_pc, files_todo, tables_todo,
          drizzle_columns, report, printed, v_pc, all_drizzle_columns,
          tables_with_issues, total_missing_columns,
          catalog, x_pc, failed, all_tables, by_table, architecture,
          artifacts, x_printed,
          grep_stdout, naming_todo, naming_report, naming_file, n_pc,
          listed_items, listings,
          d_pc, d_todo, d_all_tables, d_architecture, applied, prev_total>>

(***************************************************************************)
(* Values                                                                  *)
(***************************************************************************)

\* Python None for an integer-valued field (json null / an empty catalog field).
None == -1

\* Largest numeric precision / scale / character length a catalog row carries.
MaxQualifier == 2

Qualifiers == {None} \cup (0..MaxQualifier)

\* udt names the mappers recognise, plus one they do not ("citext").
UdtNames ==
    {"uuid", "text", "bool", "int4", "integer", "int2", "smallint",
     "timestamptz", "timestamp", "date", "numeric", "decimal", "varchar",
     "json", "jsonb", "citext"}

\* information_schema data_type values (the generic class of a column).
DataTypes == {"boolean", "character varying", "USER-DEFINED", "uuid"}

\* Python truthiness of an int-or-None field: None and 0 are falsy.
Truthy(x) == x # None /\ x # 0

\* Python truthiness of a str field split from a catalog line: only '' is
\* falsy ('' is modelled by None, the string '0' by 0).
TruthyStr(x) == x # None

\* Table, column and file names are natural numbers standing for identifiers;
\* their numeric order is the alphabetical order sorted() uses.

\* A rendered Drizzle constructor call: ctor('name', { options }).
Rendered(ctor, name, tz, precision, scale, length) ==
    [ctor |-> ctor, name |-> name, tz |-> tz,
     precision |-> precision, scale |-> scale, length |-> length]

Plain(ctor, name) == Rendered(ctor, name, FALSE, None, None, None)

\* What a call leaves when a dict lookup fails.
KeyError(key) == [exc |-> "KeyError", key |-> key]

Raised(r) == "exc" \in DOMAIN r

(***************************************************************************)
(* Type mapping                                                            *)
(***************************************************************************)

\* map_type with the fallback passing the native name through.
map_type_passthrough(c) ==
    LET udt == IF "udt_name" \in DOMAIN c THEN c.udt_name ELSE c.data_type
    IN  IF udt = "bool" THEN [token |-> "boolean"]
        ELSE IF udt \in {"int4", "integer"} THEN [token |-> "integer"]
        ELSE IF udt = "timestamptz" THEN [token |-> "timestamp_tz"]
        ELSE IF udt \in {"json", "jsonb"} THEN [token |-> "jsonb"]
        ELSE [token |-> udt]

\* map_type keyed on the generic class instead of the udt name.
map_type_by_class(c) ==
    LET udt == c.data_type
    IN  IF udt = "uuid" THEN [token |-> "uuid"]
        ELSE IF udt = "text" THEN [token |-> "text"]
        ELSE IF udt = "bool" THEN [token |-> "boolean"]
        ELSE IF udt \in {"int4", "integer"} THEN [token |-> "integer"]
        ELSE IF udt = "timestamptz" THEN [token |-> "timestamp_tz"]
        ELSE IF udt = "timestamp" THEN [token |-> "timestamp"]
        ELSE IF udt = "date" THEN [token |-> "date"]
        ELSE IF udt = "numeric" THEN [token |-> "numeric"]
        ELSE IF udt = "varchar" THEN [token |-> "varchar"]
        ELSE IF udt \in {"json", "jsonb"} THEN [token |-> "jsonb"]
        ELSE [token |-> "text"]

\* add-all-missing-columns.py map_type: returns the bare type token.
map_type(c) ==
    LET udt == IF "udt_name" \in DOMAIN c THEN c.udt_name ELSE c.data_type
    IN  IF udt = "uuid" THEN [token |-> "uuid"]
        ELSE IF udt = "text" THEN [token |-> "text"]
        ELSE IF udt = "bool" THEN [token |-> "boolean"]
        ELSE IF udt \in {"int4", "integer"} THEN [token |-> "integer"]
        ELSE IF udt = "timestamptz" THEN [token |-> "timestamp_tz"]
        ELSE IF udt = "timestamp" THEN [token |-> "timestamp"]
        ELSE IF udt = "date" THEN [token |-> "date"]
        ELSE IF udt = "numeric" THEN [token |-> "numeric"]
        ELSE IF udt = "varchar" THEN [token |-> "varchar"]
        ELSE IF udt \in {"json", "jsonb"} THEN [token |-> "jsonb"]
        ELSE [token |-> "text"]

\* complete-drizzle-from-db.py map_db_type_to_drizzle: qualifiers are json
\* numbers or null.
map_db_type_to_drizzle(c) ==
    IF "udt_name" \notin DOMAIN c THEN KeyError("udt_name")
    ELSE LET udt == c.udt_name
             n == c.name
         IN  IF udt = "uuid" THEN Plain("uuid", n)
             ELSE IF udt = "text" THEN Plain("text", n)
             ELSE IF udt = "bool" THEN Plain("boolean", n)
             ELSE IF udt \in {"int4", "integer", "int2", "smallint"}
                  THEN Plain("integer", n)
             ELSE IF udt = "timestamptz"
                  THEN Rendered("timestamp", n, TRUE, None, None, None)
             ELSE IF udt = "timestamp" THEN Plain("timestamp", n)
             ELSE IF udt = "date" THEN Plain("date", n)
             ELSE IF udt \in {"numeric", "decimal"}
                  THEN IF Truthy(c.numeric_precision) /\ Truthy(c.numeric_scale)
                       THEN Rendered("numeric", n, FALSE,
                                     c.numeric_precision, c.numeric_scale, None)
                       ELSE Plain("numeric", n)
             ELSE IF udt = "varchar"
                  THEN IF Truthy(c.char_max_length)
                       THEN Rendered("varchar", n, FALSE, None, None,
                                     c.char_max_length)
                       ELSE Plain("varchar", n)
             ELSE IF udt \in {"json", "jsonb"} THEN Plain("jsonb", n)
             ELSE Plain("text", n)

\* add-missing-tables-to-schemas.py map_pg_type_to_drizzle: qualifiers are
\* the strings split from the catalog line.
map_pg_type_to_drizzle(c) ==
    IF "udt_name" \notin DOMAIN c THEN KeyError("udt_name")
    ELSE LET udt == c.udt_name
             n == c.name
         IN  IF udt = "uuid" THEN Plain("uuid", n)
             ELSE IF udt = "text" THEN Plain("text", n)
             ELSE IF udt = "bool" THEN Plain("boolean", n)
             ELSE IF udt \in {"int4", "integer"} THEN Plain("integer", n)
             ELSE IF udt \in {"timestamptz"}
                  THEN Rendered("timestamp", n, TRUE, None, None, None)
             ELSE IF udt = "timestamp" THEN Plain("timestamp", n)
             ELSE IF udt = "date" THEN Plain("date", n)
             ELSE IF udt \in {"numeric", "decimal"}
                  THEN IF TruthyStr(c.numeric_precision) /\ TruthyStr(c.numeric_scale)
                       THEN Rendered("numeric", n, FALSE,
                                     c.numeric_precision, c.numeric_scale, None)
                       ELSE Plain("numeric", n)
             ELSE IF udt = "varchar"
                  THEN IF TruthyStr(c.char_max_length)
                       THEN Rendered("varchar", n, FALSE, None, None,
                                     c.char_max_length)
                       ELSE Plain("varchar", n)
             ELSE IF udt \in {"json", "jsonb"} THEN Plain("jsonb", n)
             ELSE Plain("text", n)

\* The descriptors the scripts build: extract-complete-db-architecture.py and
\* generate-audit-reports.py keep udt_name and the qualifiers,
\* audit-missing-columns.py load_db_columns keeps neither.
FullDescriptors ==
    [name : {1}, data_type : DataTypes, udt_name : UdtNames,
     numeric_precision : Qualifiers, numeric_scale : Qualifiers,
     char_max_length : {None, MaxQualifier}]

AuditDescriptors == [name : {1}, data_type : DataTypes]

MapInputs == FullDescriptors \cup AuditDescriptors

Mappers == {"map_type", "map_db_type_to_drizzle", "map_pg_type_to_drizzle"}

NoCalls == [m \in {} |-> None]

\* No other run of the reconciler exists.
NoRun == [pc |-> "none"]

\* The mappers are not being exercised.
MapIdle ==
    /\ col = [name |-> 0]
    /\ mapped = NoCalls

\* The reconciler is not running.
ReconIdle ==
    /\ db_arch = [tables |-> NoCalls]
    /\ dz_arch = [tables |-> NoCalls]
    /\ pc = "idle"
    /\ missing_tables = {}
    /\ common_todo = <<>>
    /\ tables_with_missing_cols = NoCalls
    /\ total_missing_cols = 0
    /\ top5 = <<>>
    /\ fragment = <<>>
    /\ output_file = <<>>
    /\ suspended = NoRun

\* No schema file or catalog dump is being checked.
AuditIdle ==
    /\ a_pc = "idle"
    /\ drizzle_columns = {}
    /\ report = NoCalls

VerifyIdle ==
    /\ v_pc = "idle"
    /\ all_drizzle_columns = NoCalls
    /\ tables_with_issues = 0
    /\ total_missing_columns = 0

ChecksIdle ==
    /\ db_lines = <<>>
    /\ schema_files = NoCalls
    /\ files_todo = <<>>
    /\ tables_todo = <<>>
    /\ printed = NoCalls
    /\ AuditIdle
    /\ VerifyIdle

\* The extractor is not running.
ExtractIdle ==
    /\ catalog = NoCalls
    /\ x_pc = "idle"
    /\ failed = {}
    /\ all_tables = <<>>
    /\ by_table = NoCalls
    /\ architecture = NoCalls
    /\ artifacts = NoCalls
    /\ x_printed = NoCalls

\* No report is being generated.
ReportsIdle ==
    /\ grep_stdout = <<>>
    /\ naming_todo = <<>>
    /\ naming_report = NoCalls
    /\ naming_file = NoCalls
    /\ n_pc = "idle"
    /\ listed_items = <<>>
    /\ listings = NoCalls

\* The declaration extractor is not running.
DeclareIdle ==
    /\ d_pc = "idle"
    /\ d_todo = <<>>
    /\ d_all_tables = <<>>
    /\ d_architecture = NoCalls

\* No generated statement has been inserted anywhere.
CycleIdle ==
    /\ applied = NoCalls
    /\ prev_total = None

MapInit ==
    /\ col \in MapInputs
    /\ mapped = NoCalls
    /\ ReconIdle
    /\ ChecksIdle
    /\ ExtractIdle
    /\ ReportsIdle /\ DeclareIdle /\ CycleIdle

CallMapType ==
    /\ "map_type" \notin DOMAIN mapped
    /\ mapped' = mapped @@ ("map_type" :> map_type(col))
    /\ UNCHANGED <<declVars, cycleVars, reportVars, col, reconVars, checkVars, extractVars>>

CallMapDbTypeToDrizzle ==
    /\ "map_db_type_to_drizzle" \notin DOMAIN mapped
    /\ mapped' = mapped @@ ("map_db_type_to_drizzle" :> map_db_type_to_drizzle(col))
    /\ UNCHANGED <<declVars, cycleVars, reportVars, col, reconVars, checkVars, extractVars>>

CallMapPgTypeToDrizzle ==
    /\ "map_pg_type_to_drizzle" \notin DOMAIN mapped
    /\ mapped' = mapped @@ ("map_pg_type_to_drizzle" :> map_pg_type_to_drizzle(col))
    /\ UNCHANGED <<declVars, cycleVars, reportVars, col, reconVars, checkVars, extractVars>>

MapNext == CallMapType \/ CallMapDbTypeToDrizzle \/ CallMapPgTypeToDrizzle

SpecMap == MapInit /\ [][MapNext]_vars

(***************************************************************************)
(* Type mapping: properties                                                *)
(***************************************************************************)

\* The canonical token a mapper's result denotes: the bare token of map_type,
\* the constructor of a rendering, "timestamp_tz" for timestamp with
\* withTimezone.
TokenOf(r) ==
    IF "token" \in DOMAIN r THEN r.token
    ELSE IF r.ctor = "timestamp" /\ r.tz THEN "timestamp_tz"
    ELSE r.ctor

RecognizedUdt == UdtNames \ {"citext"}

\* The native type a descriptor is keyed on is outside the recognized set.
Unrecognized(c) ==
    IF "udt_name" \in DOMAIN c THEN c.udt_name \notin RecognizedUdt
    ELSE c.data_type \notin RecognizedUdt

\* C9: every type-mapping function returns a result for every descriptor,
\* also one without a udt name, and never raises; an unrecognized native
\* type gives the text token.
C9_MappingTotalTextFallback ==
    \A m \in DOMAIN mapped :
        /\ ~Raised(mapped[m])
        /\ Unrecognized(col) => TokenOf(mapped[m]) = "text"

\* The closed token set as C10 states it.
ClosedTokens ==
    {"uuid", "text", "varchar", "boolean", "integer", "numeric", "timestamp",
     "timestamp_tz", "date", "json"}

\* The tokens the mappers produce: jsonb where C10 says json.
ProducedTokens == (ClosedTokens \ {"json"}) \cup {"jsonb"}

IsJsonUdt(c) == "udt_name" \in DOMAIN c /\ c.udt_name \in {"json", "jsonb"}

\* C10 as stated: every returned token is in the closed set with json, and
\* json and jsonb both map to the json token.
C10_TokensInClosedSetJson ==
    \A m \in DOMAIN mapped :
        ~Raised(mapped[m]) =>
            /\ TokenOf(mapped[m]) \in ClosedTokens
            /\ IsJsonUdt(col) => TokenOf(mapped[m]) = "json"

\* C10 amended: every token a mapper returns is in {uuid, text, varchar,
\* boolean, integer, numeric, timestamp, timestamp_tz, date, jsonb}, and
\* json and jsonb native types both map to the jsonb token.
C10_TokensInClosedSetJsonb ==
    \A m \in DOMAIN mapped :
        ~Raised(mapped[m]) =>
            /\ TokenOf(mapped[m]) \in ProducedTokens
            /\ IsJsonUdt(col) => TokenOf(mapped[m]) = "jsonb"

\* All three mappers have returned for a json column.
C10_Witness ==
    /\ DOMAIN mapped = Mappers
    /\ "udt_name" \in DOMAIN col /\ col.udt_name = "json"
    /\ \A m \in Mappers : ~Raised(mapped[m]) /\ TokenOf(mapped[m]) = "jsonb"

\* What mapper m returns for descriptor c.
ApplyMapper(m, c) ==
    CASE m = "map_type" -> map_type(c)
      [] m = "map_db_type_to_drizzle" -> map_db_type_to_drizzle(c)
      [] m = "map_pg_type_to_drizzle" -> map_pg_type_to_drizzle(c)

\* C11: a descriptor that carries a udt name maps to the same result under
\* every data_type value, its udt name, name and qualifiers being kept: the
\* udt name decides, not the generic class.
C11_UdtNameDecides ==
    \A m \in DOMAIN mapped :
        "udt_name" \in DOMAIN col =>
            \A dt \in DataTypes :
                ApplyMapper(m, [col EXCEPT !.data_type = dt]) = mapped[m]

\* The mappers have returned boolean for a bool column whose generic class
\* names another type.
C11_Witness ==
    /\ {"map_type", "map_db_type_to_drizzle"} \subseteq DOMAIN mapped
    /\ "udt_name" \in DOMAIN col
    /\ col.udt_name = "bool" /\ col.data_type = "uuid"
    /\ TokenOf(mapped["map_type"]) = "boolean"
    /\ TokenOf(mapped["map_db_type_to_drizzle"]) = "boolean"

\* C17: a numeric column with a precision p >= 1 and a scale s >= 0 is
\* rendered with both qualifiers, also for s = 0, and a varchar column with
\* a length L with that length.
C17_QualifiersRendered ==
    \A m \in DOMAIN mapped \cap
             {"map_db_type_to_drizzle", "map_pg_type_to_drizzle"} :
        "udt_name" \in DOMAIN col =>
            /\ (/\ col.udt_name = "numeric"
                /\ col.numeric_precision >= 1
                /\ col.numeric_scale >= 0) =>
                    mapped[m] = Rendered("numeric", col.name, FALSE,
                                         col.numeric_precision,
                                         col.numeric_scale, None)
            /\ (col.udt_name = "varchar" /\ col.char_max_length >= 1) =>
                    mapped[m] = Rendered("varchar", col.name, FALSE, None, None,
                                         col.char_max_length)

(***************************************************************************)
(* Reconciler: complete-drizzle-from-db.py                                 *)
(***************************************************************************)

\* Tables of the database in the model of the reconciler.
NumTables == 2

\* Tables of the database in the model with many incomplete tables.
WideTables == 6

\* Python None for a string-valued field.
NoneStr == "None"

\* sorted(S) for a set of names.
RECURSIVE SortedSeq(_)
SortedSeq(S) ==
    IF S = {} THEN <<>>
    ELSE LET m == CHOOSE x \in S : \A y \in S : x <= y
         IN  <<m>> \o SortedSeq(S \ {m})

Range(q) == {q[i] : i \in DOMAIN q}

\* The catalog row of a column, as extract-complete-db-architecture.py
\* stores it: column 1 is a uuid key, column 2 a numeric amount, column 3 a
\* varchar whose default is the empty string literal.
DbColumn(n, pos) ==
    IF n = 1
    THEN [name |-> n, position |-> pos, data_type |-> "uuid",
          char_max_length |-> None, numeric_precision |-> None,
          numeric_scale |-> None, is_nullable |-> FALSE,
          column_default |-> "gen_random_uuid()", udt_name |-> "uuid"]
    ELSE IF n = 3
    THEN [name |-> n, position |-> pos, data_type |-> "character varying",
          char_max_length |-> MaxQualifier, numeric_precision |-> None,
          numeric_scale |-> None, is_nullable |-> TRUE,
          column_default |-> "''", udt_name |-> "varchar"]
    ELSE [name |-> n, position |-> pos, data_type |-> "numeric",
          char_max_length |-> None, numeric_precision |-> MaxQualifier,
          numeric_scale |-> MaxQualifier, is_nullable |-> TRUE,
          column_default |-> NoneStr, udt_name |-> "numeric"]

DbColumns(order) == [i \in DOMAIN order |-> DbColumn(order[i], i)]

\* Column-name orders of a database table (catalog ordinal order).
DbColumnOrders == {<<1>>, <<1, 2>>, <<2, 1>>}

\* A declared column as extract_table_from_block records it.
DzColumn(n, type) ==
    [variable_name |-> n, column_name |-> n, drizzle_type |-> type]

\* What the declaration model holds for a table: nothing, a descriptor
\* without a column list, or a descriptor with its declared columns.
DzChoices ==
    {[present |-> FALSE, has_columns |-> FALSE, columns |-> <<>>],
     [present |-> TRUE, has_columns |-> FALSE, columns |-> <<>>]}
    \cup
    {[present |-> TRUE, has_columns |-> TRUE, columns |-> c1 \o c2] :
        c1 \in {<<>>, <<DzColumn(1, "uuid")>>, <<DzColumn(1, "text")>>},
        c2 \in {<<>>, <<DzColumn(2, "numeric")>>}}

DzTable(t, ch) ==
    IF ch.has_columns
    THEN [variable_name |-> t, table_name |-> t, source_file |-> t,
          columns |-> ch.columns]
    ELSE [variable_name |-> t, table_name |-> t, source_file |-> t]

\* DB_architecture.json with the tables names.
DbModel(names, order) ==
    [tables |-> [t \in names |-> [name |-> t, columns |-> DbColumns(order[t])]]]

\* DZ_architecture.json with the tables decl declares.
DzModel(decl) ==
    [tables |-> [t \in {u \in DOMAIN decl : decl[u].present} |->
                    DzTable(t, decl[t])]]

\* The two architectures as json.load returns them (lines 12-16).
Loaded(names, order, decl) ==
    /\ db_arch = DbModel(names, order)
    /\ dz_arch = DzModel(decl)
    /\ pc = "tables"
    /\ missing_tables = {}
    /\ common_todo = <<>>
    /\ tables_with_missing_cols = NoCalls
    /\ total_missing_cols = 0
    /\ top5 = <<>>
    /\ fragment = <<>>

\* Table 0 is a table only the declarations can have.
Init ==
    /\ MapIdle
    /\ ChecksIdle
    /\ ExtractIdle
    /\ ReportsIdle /\ DeclareIdle /\ CycleIdle
    /\ \E order \in [1..NumTables -> DbColumnOrders],
          decl \in [0..NumTables -> DzChoices] :
            /\ decl[0].has_columns => decl[0].columns = <<>>
            /\ Loaded(1..NumTables, order, decl)
    /\ output_file = <<>>
    /\ suspended = NoRun

\* Many tables, each declared complete, without column 2 or without columns.
WideChoices ==
    {ch \in DzChoices :
        /\ ch.present /\ ch.has_columns
        /\ \A i \in DOMAIN ch.columns : ch.columns[i].drizzle_type # "text"
        /\ ch.columns # <<DzColumn(2, "numeric")>>}

InitWide ==
    /\ MapIdle
    /\ ChecksIdle
    /\ ExtractIdle
    /\ ReportsIdle /\ DeclareIdle /\ CycleIdle
    /\ \E decl \in [1..WideTables -> WideChoices] :
            Loaded(1..WideTables, [t \in 1..WideTables |-> <<1, 2>>], decl)
    /\ output_file = <<>>
    /\ suspended = NoRun

\* Column orders of tables that have column 3.
DefaultOrders == {<<1, 3>>, <<3, 1>>, <<1, 3, 2>>, <<2, 1, 3>>}

\* Declarations of such tables: some of their columns.
DefaultChoices ==
    {[present |-> TRUE, has_columns |-> TRUE, columns |-> c] :
        c \in {<<>>, <<DzColumn(1, "uuid")>>, <<DzColumn(3, "varchar")>>,
               <<DzColumn(1, "uuid"), DzColumn(3, "varchar")>>,
               <<DzColumn(1, "uuid"), DzColumn(2, "numeric"),
                 DzColumn(3, "varchar")>>}}

\* Models whose tables have a column with the default ''.
InitDefaults ==
    /\ MapIdle
    /\ ChecksIdle
    /\ ExtractIdle
    /\ ReportsIdle /\ DeclareIdle /\ CycleIdle
    /\ \E order \in [1..NumTables -> DefaultOrders],
          decl \in [1..NumTables -> DefaultChoices] :
            Loaded(1..NumTables, order, decl)
    /\ output_file = <<>>
    /\ suspended = NoRun

db_tables == DOMAIN db_arch.tables
dz_tables == DOMAIN dz_arch.tables

\* db_tables with dz_tables and db_tables exchanged.
TablesMissingReversed(db, dz) == dz \ db

\* Line 30.
TablesMissing(db, dz) == db \ dz

\* Lines 27-44: missing_tables and common_tables.
ComputeMissingTables ==
    /\ pc = "tables"
    /\ missing_tables' = TablesMissing(db_tables, dz_tables)
    /\ common_todo' = SortedSeq(db_tables \cap dz_tables)
    /\ pc' = "columns"
    /\ UNCHANGED <<declVars, cycleVars, reportVars, db_arch, dz_arch, tables_with_missing_cols,
                   total_missing_cols, top5, fragment, output_file, suspended,
                   mapVars, checkVars, extractVars>>

\* Lines 50-57: the column names of one table on both sides.
db_cols(table) == {c.name : c \in Range(db_arch.tables[table].columns)}

dz_cols(table) ==
    IF table \in DOMAIN dz_arch.tables
       /\ "columns" \in DOMAIN dz_arch.tables[table]
    THEN {c.column_name : c \in Range(dz_arch.tables[table].columns)}
    ELSE {}

\* The difference taken both ways.
missing_either_way(table) ==
    (db_cols(table) \ dz_cols(table)) \cup (dz_cols(table) \ db_cols(table))

\* Line 57.
missing(table) == db_cols(table) \ dz_cols(table)

\* Lines 49-65: one iteration of the loop over sorted(common_tables).
CompareTable ==
    /\ pc = "columns"
    /\ common_todo # <<>>
    /\ LET table == Head(common_todo)
       IN  /\ common_todo' = Tail(common_todo)
           /\ IF missing(table) # {}
              THEN /\ tables_with_missing_cols' =
                        tables_with_missing_cols @@
                        (table :> [missing_columns |-> SortedSeq(missing(table)),
                                   missing_count |-> Cardinality(missing(table)),
                                   db_columns |-> db_arch.tables[table].columns])
                   /\ total_missing_cols' =
                        total_missing_cols + Cardinality(missing(table))
              ELSE UNCHANGED <<tables_with_missing_cols, total_missing_cols>>
    /\ UNCHANGED <<declVars, cycleVars, reportVars, db_arch, dz_arch, pc, missing_tables, top5, fragment,
                   output_file, suspended, mapVars, checkVars, extractVars>>

\* The cut the code generator applies to the tables it writes (line 124).
TopN == 5

\* The tables in the order of their names, whatever their counts.
ByNameAsc(S, info) == SortedSeq(S)

\* sorted(items, key=missing_count, reverse=True): descending count, tables
\* of equal count in dict order, which is the order of insertion (by name).
RECURSIVE ByCountDesc(_, _)
ByCountDesc(S, info) ==
    IF S = {} THEN <<>>
    ELSE LET m == CHOOSE x \in S : \A y \in S :
                    \/ info[x].missing_count > info[y].missing_count
                    \/ /\ info[x].missing_count = info[y].missing_count
                       /\ x <= y
         IN  <<m>> \o ByCountDesc(S \ {m}, info)

FirstN(q, n) == SubSeq(q, 1, IF Len(q) < n THEN Len(q) ELSE n)

\* Line 124.
SelectTop(info) == FirstN(ByCountDesc(DOMAIN info, info), TopN)

\* open(output_file, 'a'): the content of the file is kept.
OpenForAppending(file) == file

\* Line 120, open(output_file, 'w'): the file is truncated.
OpenForWriting(file) == <<>>

\* f.write of items by a handle whose position is pos: the items replace
\* what the file holds from there on and extend it; a position past the
\* end of the file leaves a hole before them.
WriteAt(file, pos, items) ==
    LET end == pos + Len(items)
        total == IF Len(file) > end THEN Len(file) ELSE end
    IN  [i \in 1..total |->
            IF i > pos /\ i <= end THEN items[i - pos]
            ELSE IF i <= Len(file) THEN file[i]
            ELSE [kind |-> "hole"]]

\* Lines 120-124: the file is opened (truncated), the banner written and the
\* tables to write selected.
OpenOutput ==
    /\ pc = "columns"
    /\ common_todo = <<>>
    /\ fragment' = <<[kind |-> "banner"]>>
    /\ LET opened == OpenForWriting(output_file)
       IN  output_file' = WriteAt(opened, Len(opened), <<[kind |-> "banner"]>>)
    /\ top5' = SelectTop(tables_with_missing_cols)
    /\ pc' = "write"
    /\ UNCHANGED <<declVars, cycleVars, reportVars, db_arch, dz_arch, missing_tables, common_todo,
                   tables_with_missing_cols, total_missing_cols, suspended,
                   mapVars, checkVars, extractVars>>

\* Lines 146-156: the modifier a default expression gets; "" when none.
\* The template quotes of a sql tag are written as apostrophes.
\* The expression whose first word is missing ("''") makes split()[0] raise.
DefaultModifier(default) ==
    CASE default = "gen_random_uuid()" -> ".default(sql'gen_random_uuid()')"
      [] default \in {"now()", "CURRENT_TIMESTAMP"} -> ".defaultNow()"
      [] default = "0" -> ".default('0')"
      [] default = "true" -> ".default(true)"
      [] default = "false" -> ".default(false)"
      [] default = "''" -> "IndexError"
      [] OTHER -> ""

\* Lines 138-163: the statement of one missing column.
Statement(table, db_col) ==
    [kind |-> "stmt", table |-> table, key |-> db_col.name,
     def |-> map_db_type_to_drizzle(db_col),
     modifiers |->
        (IF ~db_col.is_nullable THEN <<".notNull()">> ELSE <<>>) \o
        (IF db_col.column_default # NoneStr
            /\ DefaultModifier(db_col.column_default) # ""
         THEN <<DefaultModifier(db_col.column_default)>> ELSE <<>>),
     comment |-> IF ~db_col.is_nullable THEN "NOT NULL" ELSE "nullable"]

\* Whether writing the statement of db_col raises.
StatementRaises(db_col) ==
    \/ Raised(map_db_type_to_drizzle(db_col))
    \/ /\ db_col.column_default # NoneStr
       /\ DefaultModifier(db_col.column_default) = "IndexError"

\* Lines 136-163: the statements of the columns of db_columns that are in
\* missing_col_names, in the order of db_columns, up to one that raises.
RECURSIVE Statements(_, _, _)
Statements(table, db_columns, missing_col_names) ==
    IF db_columns = <<>> THEN <<>>
    ELSE LET db_col == Head(db_columns)
         IN  IF db_col.name \notin missing_col_names
             THEN Statements(table, Tail(db_columns), missing_col_names)
             ELSE IF StatementRaises(db_col) THEN <<[kind |-> "raise"]>>
             ELSE <<Statement(table, db_col)>> \o
                  Statements(table, Tail(db_columns), missing_col_names)

\* Lines 126-163: the section of one table.
Section(table, info) ==
    <<[kind |-> "table", table |-> table, missing_count |-> info.missing_count,
       source_file |-> IF table \in DOMAIN dz_arch.tables
                          /\ "source_file" \in DOMAIN dz_arch.tables[table]
                       THEN dz_arch.tables[table].source_file ELSE 0]>>
    \o Statements(table, db_arch.tables[table].columns,
                  Range(info.missing_columns))

Written(q) == SelectSeq(q, LAMBDA it : it.kind # "raise")

\* One iteration of the loop over top5; an exception ends the script with
\* what was written so far.
WriteTable ==
    /\ pc = "write"
    /\ top5 # <<>>
    /\ LET table == Head(top5)
           sec == Section(table, tables_with_missing_cols[table])
       IN  /\ fragment' = fragment \o Written(sec)
           /\ output_file' = WriteAt(output_file, Len(fragment), Written(sec))
           /\ IF \E i \in DOMAIN sec : sec[i].kind = "raise"
              THEN pc' = "crashed" /\ top5' = top5
              ELSE pc' = pc /\ top5' = Tail(top5)
    /\ UNCHANGED <<declVars, cycleVars, reportVars, db_arch, dz_arch, missing_tables, common_todo,
                   tables_with_missing_cols, total_missing_cols, suspended,
                   mapVars, checkVars, extractVars>>

\* Line 165: the with block ends, the file is closed.
CloseOutput ==
    /\ pc = "write"
    /\ top5 = <<>>
    /\ pc' = "done"
    /\ UNCHANGED <<declVars, cycleVars, reportVars, db_arch, dz_arch, missing_tables, common_todo,
                   tables_with_missing_cols, total_missing_cols, top5,
                   fragment, output_file, suspended, mapVars, checkVars,
                   extractVars>>

Next == ComputeMissingTables \/ CompareTable \/ OpenOutput \/ WriteTable \/ CloseOutput

Spec == Init /\ [][Next]_vars

SpecWide == InitWide /\ [][Next]_vars

SpecDefaults == InitDefaults /\ [][Next]_vars

\* What a run of the script holds in memory.
Local ==
    [db_arch |-> db_arch, dz_arch |-> dz_arch, pc |-> pc,
     missing_tables |-> missing_tables, common_todo |-> common_todo,
     tables_with_missing_cols |-> tables_with_missing_cols,
     total_missing_cols |-> total_missing_cols, top5 |-> top5,
     fragment |-> fragment]

\* A run that has loaded db and dz and done nothing else (lines 12-16).
Fresh(db, dz) ==
    [db_arch |-> db, dz_arch |-> dz, pc |-> "tables", missing_tables |-> {},
     common_todo |-> <<>>, tables_with_missing_cols |-> NoCalls,
     total_missing_cols |-> 0, top5 |-> <<>>, fragment |-> <<>>]

\* The processor continues with the run whose state is l.
Resume(l) ==
    /\ db_arch' = l.db_arch
    /\ dz_arch' = l.dz_arch
    /\ pc' = l.pc
    /\ missing_tables' = l.missing_tables
    /\ common_todo' = l.common_todo
    /\ tables_with_missing_cols' = l.tables_with_missing_cols
    /\ total_missing_cols' = l.total_missing_cols
    /\ top5' = l.top5
    /\ fragment' = l.fragment

\* The script is started again on the same two files once a run has ended;
\* what the ended run produced is kept aside with the file it left.
RunAgain ==
    /\ pc = "done"
    /\ suspended = NoRun
    /\ suspended' = [artifact |-> output_file] @@ Local
    /\ Resume(Fresh(db_arch, dz_arch))
    /\ UNCHANGED <<declVars, cycleVars, reportVars, output_file, mapVars, checkVars, extractVars>>

SpecTwice == Init /\ [][Next \/ RunAgain]_vars

\* Models of two runs that obtained them independently: every table
\* declared complete, without column 2 or without columns.
InitConcurrent ==
    /\ MapIdle
    /\ ChecksIdle
    /\ ExtractIdle
    /\ ReportsIdle /\ DeclareIdle /\ CycleIdle
    /\ \E decl1 \in [1..NumTables -> WideChoices],
          decl2 \in [1..NumTables -> WideChoices] :
            /\ Loaded(1..NumTables, [t \in 1..NumTables |-> <<1, 2>>], decl1)
            /\ suspended = Fresh(DbModel(1..NumTables,
                                         [t \in 1..NumTables |-> <<1, 2>>]),
                                 DzModel(decl2))
    /\ output_file = <<>>

\* The scheduler takes the processor from the executing run and gives it to
\* the other one, which has not ended.
Switch ==
    /\ suspended.pc \notin {"none", "done", "crashed"}
    /\ suspended' = Local
    /\ Resume(suspended)
    /\ UNCHANGED <<declVars, cycleVars, reportVars, output_file, mapVars, checkVars, extractVars>>

SpecConcurrent == InitConcurrent /\ [][Next \/ Switch]_vars

(***************************************************************************)
(* Reconciler: properties                                                  *)
(***************************************************************************)

AllTableNames == 0..(WideTables + NumTables)

\* C1: the tables reported missing are exactly the reference table names
\* that are not keys of the candidate's table map.
C1_MissingTablesExact ==
    pc \in {"columns", "write", "done", "crashed"} =>
        \A t \in AllTableNames :
            t \in missing_tables <=>
                (t \in DOMAIN db_arch.tables /\ t \notin DOMAIN dz_arch.tables)

\* A finished run with a table only in the database, a table only in the
\* declarations and a table in both.
C1_Witness ==
    /\ pc = "done"
    /\ missing_tables # {}
    /\ \E t \in DOMAIN dz_arch.tables : t \notin DOMAIN db_arch.tables
    /\ \E t \in DOMAIN dz_arch.tables : t \in DOMAIN db_arch.tables

CommonTables == DOMAIN db_arch.tables \cap DOMAIN dz_arch.tables

RefNames(t) ==
    {db_arch.tables[t].columns[i].name : i \in DOMAIN db_arch.tables[t].columns}

HasColumnList(t) == "columns" \in DOMAIN dz_arch.tables[t]

CandNames(t) ==
    IF HasColumnList(t)
    THEN {dz_arch.tables[t].columns[i].column_name :
            i \in DOMAIN dz_arch.tables[t].columns}
    ELSE {}

ColumnsCompared == pc \in {"write", "done"}

\* C2: for every table in both models the recorded missing columns are
\* exactly the reference column names that are not candidate column names of
\* that table (all of them for a candidate with no columns or no column
\* list), and a table with nothing missing has no entry; the comparison
\* reaches its end for every pair of models.
C2_MissingColumnsExact ==
    ColumnsCompared =>
        /\ common_todo = <<>>
        /\ DOMAIN tables_with_missing_cols \subseteq CommonTables
        /\ \A t \in CommonTables :
            IF RefNames(t) \subseteq CandNames(t)
            THEN t \notin DOMAIN tables_with_missing_cols
            ELSE /\ t \in DOMAIN tables_with_missing_cols
                 /\ LET e == tables_with_missing_cols[t]
                    IN  /\ Range(e.missing_columns) = RefNames(t) \ CandNames(t)
                        /\ Len(e.missing_columns) = Cardinality(RefNames(t) \ CandNames(t))
                        /\ e.missing_count = Len(e.missing_columns)

\* A finished run that met a table without a column list, reported with
\* every reference column, and a table with nothing missing, with no entry.
C2_Witness ==
    /\ pc = "done"
    /\ \E t \in CommonTables :
        /\ ~HasColumnList(t)
        /\ Range(tables_with_missing_cols[t].missing_columns) = RefNames(t)
    /\ \E t \in CommonTables :
        /\ RefNames(t) \subseteq CandNames(t)
        /\ t \notin DOMAIN tables_with_missing_cols

\* The diff entries a finished run has produced: the missing tables it
\* listed and the missing columns it recorded.
DiffEntries ==
    {[category |-> "missing_table", table |-> t, column |-> 0] :
        t \in missing_tables}
    \cup
    UNION {{[category |-> "missing_column", table |-> t, column |-> c] :
                c \in Range(tables_with_missing_cols[t].missing_columns)} :
           t \in DOMAIN tables_with_missing_cols}

RefColumn(t, c) ==
    LET cs == db_arch.tables[t].columns
    IN  cs[CHOOSE i \in DOMAIN cs : cs[i].name = c]

CandColumn(t, c) ==
    LET cs == dz_arch.tables[t].columns
    IN  cs[CHOOSE i \in DOMAIN cs : cs[i].column_name = c]

TypesDisagree(t, c) ==
    TokenOf(map_db_type_to_drizzle(RefColumn(t, c))) # CandColumn(t, c).drizzle_type

\* C5: for every column present in the same table of both models there is a
\* type_mismatch entry exactly when the canonical type of the reference
\* column differs from the type of the candidate column.
C5_TypeMismatchEmitted ==
    pc = "done" =>
        \A t \in CommonTables : \A c \in RefNames(t) \cap CandNames(t) :
            TypesDisagree(t, c) <=>
                [category |-> "type_mismatch", table |-> t, column |-> c]
                    \in DiffEntries

StatementsFor(t, c) ==
    {i \in DOMAIN fragment :
        fragment[i].kind = "stmt" /\ fragment[i].table = t /\ fragment[i].key = c}

\* C6: the fragment holds exactly one statement for every missing column of
\* every table with missing columns and none for any other column, whatever
\* the number of tables with missing columns.
C6_OneStatementPerMissingColumn ==
    pc = "done" =>
        \A t \in DOMAIN db_arch.tables : \A c \in RefNames(t) :
            Cardinality(StatementsFor(t, c)) =
                IF t \in CommonTables /\ c \notin CandNames(t) THEN 1 ELSE 0

\* C12: a second run of the reconciler on the same two files ends with the
\* same missing tables, the same ordered missing-column lists per table and
\* the same generated file as the first run, and with both models as the
\* first run loaded them.
C12_SecondRunSameResult ==
    (pc = "done" /\ suspended # NoRun) =>
        /\ missing_tables = suspended.missing_tables
        /\ tables_with_missing_cols = suspended.tables_with_missing_cols
        /\ total_missing_cols = suspended.total_missing_cols
        /\ fragment = suspended.fragment
        /\ output_file = suspended.artifact
        /\ db_arch = suspended.db_arch
        /\ dz_arch = suspended.dz_arch

\* Both runs have ended, having found a missing table and missing columns
\* and written at least one table section.
C12_Witness ==
    /\ pc = "done"
    /\ suspended # NoRun
    /\ suspended.pc = "done"
    /\ missing_tables # {}
    /\ DOMAIN tables_with_missing_cols # {}
    /\ Len(output_file) > 2

\* The tables whose section the fragment holds, in the order written.
SectionTables ==
    LET heads == SelectSeq(fragment, LAMBDA it : it.kind = "table")
    IN  [i \in DOMAIN heads |-> heads[i].table]

\* The statements of a table are in the catalog ordinal order of its
\* columns.
ColumnsInOrdinalOrder ==
    \A i, j \in DOMAIN fragment :
        (/\ i < j
         /\ fragment[i].kind = "stmt" /\ fragment[j].kind = "stmt"
         /\ fragment[i].table = fragment[j].table) =>
            RefColumn(fragment[i].table, fragment[i].key).position <
            RefColumn(fragment[j].table, fragment[j].key).position

\* C13 as stated: the table sections of the fragment are in ascending order
\* of table name, and the statements of a table are in the catalog ordinal
\* order of its columns.
C13_ReferenceIterationOrder ==
    pc = "done" =>
        /\ \A i, j \in DOMAIN SectionTables :
                i < j => SectionTables[i] < SectionTables[j]
        /\ ColumnsInOrdinalOrder

MissingCountOf(t) == tables_with_missing_cols[t].missing_count

\* C13 amended: the table sections of the fragment are in descending order
\* of the number of missing columns, tables with the same number in
\* ascending order of table name, and the statements of a table are in the
\* catalog ordinal order of its columns.
C13_MostMissingFirst ==
    /\ \A i, j \in DOMAIN SectionTables :
            i < j =>
                \/ MissingCountOf(SectionTables[i]) > MissingCountOf(SectionTables[j])
                \/ /\ MissingCountOf(SectionTables[i]) = MissingCountOf(SectionTables[j])
                   /\ SectionTables[i] < SectionTables[j]
    /\ ColumnsInOrdinalOrder

\* A finished fragment whose first section is of a table that comes later
\* by name and has more missing columns, and which holds two statements of
\* one table whose column names descend.
C13_Witness ==
    /\ pc = "done"
    /\ Len(SectionTables) >= 2
    /\ SectionTables[1] > SectionTables[2]
    /\ MissingCountOf(SectionTables[1]) > MissingCountOf(SectionTables[2])
    /\ \E i, j \in DOMAIN fragment :
            /\ i < j
            /\ fragment[i].kind = "stmt" /\ fragment[j].kind = "stmt"
            /\ fragment[i].table = fragment[j].table
            /\ fragment[i].key > fragment[j].key

\* C20: when two concurrent runs over their own models have both ended, the
\* generated file is whole: it is the file one of the two runs would have
\* written alone.
C20_ConcurrentRunsLeaveWholeArtifact ==
    (pc = "done" /\ suspended.pc = "done") =>
        output_file \in {fragment, suspended.fragment}

\* C29: classifying a default never raises: whatever non-empty default
\* expressions the missing columns have, the empty string literal included,
\* the run does not end in an exception, and when it has written the
\* fragment every missing column of the tables it wrote has its statement.
C29_DefaultNeverRaises ==
    /\ pc # "crashed"
    /\ pc = "done" =>
            \A t \in Range(SectionTables) :
                \A c \in missing(t) :
                    \E i \in DOMAIN fragment :
                        /\ fragment[i].kind = "stmt"
                        /\ fragment[i].table = t
                        /\ fragment[i].key = c

(***************************************************************************)
(* Code generators: the statement each script renders for one column       *)
(***************************************************************************)

\* Default expressions of the catalog (column_default).
DefaultExprs ==
    {"gen_random_uuid()", "now()", "CURRENT_TIMESTAMP", "0", "true", "false",
     "'draft'", "'draft'::character varying", "''",
     "nextval('seq'::regclass)", "NULL"}

\* information_schema data_type of a udt name.
DataTypeOf(udt) ==
    CASE udt = "timestamptz" -> "timestamp with time zone"
      [] udt = "timestamp" -> "timestamp without time zone"
      [] udt = "varchar" -> "character varying"
      [] udt = "bool" -> "boolean"
      [] udt = "int4" -> "integer"
      [] OTHER -> udt

\* A column of DB_architecture.json.
RenderInputs ==
    {[name |-> 1, position |-> 1, data_type |-> DataTypeOf(udt),
      char_max_length |-> len, numeric_precision |-> p, numeric_scale |-> sc,
      is_nullable |-> nullable, column_default |-> d, udt_name |-> udt] :
        udt \in {"uuid", "timestamptz", "timestamp", "numeric", "varchar", "text",
                 "bool", "int4"},
        len \in {None, MaxQualifier}, p \in {None, MaxQualifier},
        sc \in {None, 0, MaxQualifier}, nullable \in BOOLEAN,
        d \in DefaultExprs \cup {NoneStr}}

\* The same column as add-missing-tables-to-schemas.py reads it from the
\* dump: every field a string, an empty field '' (lines 24-33).
DumpDescriptor(c) ==
    [c EXCEPT !.column_default = IF @ = NoneStr THEN "" ELSE @]

\* The same column as audit-missing-columns.py load_db_columns keeps it in
\* missing_with_types.
AuditDescriptor(c) ==
    [name |-> c.name, position |-> c.position, data_type |-> c.data_type,
     is_nullable |-> c.is_nullable, column_default |-> c.column_default]

\* add-missing-tables-to-schemas.py lines 81-98: the default modifier of a
\* column; "" when none is appended.
TableDefaultModifier(default_val, drizzle_type) ==
    CASE default_val = "gen_random_uuid()" -> ".default(sql'gen_random_uuid()')"
      [] default_val \in {"now()", "CURRENT_TIMESTAMP"} ->
            IF drizzle_type.tz THEN ".defaultNow()" ELSE ".default(sql'now()')"
      [] default_val \in {"", "NULL"} -> ""
      [] default_val = "0" -> ".default(0)"
      [] default_val = "true" -> ".default(true)"
      [] default_val = "false" -> ".default(false)"
      [] default_val = "'draft'" -> ".default('draft')"
      [] default_val = "''" -> ".default('')"
      [] OTHER -> ""

\* Lines 73-101: the line of one column.
TableColumnLine(c) ==
    LET drizzle_type == map_pg_type_to_drizzle(c)
    IN  [kind |-> "stmt", key |-> c.name, def |-> drizzle_type,
         modifiers |->
            (IF ~c.is_nullable THEN <<".notNull()">> ELSE <<>>) \o
            (IF c.column_default # ""
                /\ TableDefaultModifier(c.column_default, drizzle_type) # ""
             THEN <<TableDefaultModifier(c.column_default, drizzle_type)>>
             ELSE <<>>)]

\* add-missing-tables-to-schemas.py generate_table_definition.
generate_table_definition(table_name, columns) ==
    <<[kind |-> "open", table |-> table_name]>>
    \o [i \in DOMAIN columns |-> TableColumnLine(columns[i])]
    \o <<[kind |-> "close"]>>

\* add-all-missing-columns.py lines 32-35: the line printed for one column.
PrintedColumn(c) ==
    [kind |-> "stmt", key |-> c.name, def |-> map_type(c), modifiers |-> <<>>,
     comment |-> IF ~c.is_nullable THEN "" ELSE "nullable"]

Generators ==
    {"complete-drizzle-from-db", "add-missing-tables-to-schemas",
     "add-all-missing-columns"}

RenderInit ==
    /\ col \in RenderInputs
    /\ mapped = NoCalls
    /\ ReconIdle
    /\ ChecksIdle
    /\ ExtractIdle
    /\ ReportsIdle /\ DeclareIdle /\ CycleIdle

\* complete-drizzle-from-db.py lines 136-163 for a table whose one missing
\* column is col.
WriteMissingColumn ==
    /\ "complete-drizzle-from-db" \notin DOMAIN mapped
    /\ mapped' = mapped @@
            ("complete-drizzle-from-db" :> Statements(0, <<col>>, {col.name}))
    /\ UNCHANGED <<declVars, cycleVars, reportVars, col, reconVars, checkVars, extractVars>>

\* generate_table_definition for a table whose one column is col.
GenerateTableDefinition ==
    /\ "add-missing-tables-to-schemas" \notin DOMAIN mapped
    /\ mapped' = mapped @@
            ("add-missing-tables-to-schemas" :>
                generate_table_definition(0, <<DumpDescriptor(col)>>))
    /\ UNCHANGED <<declVars, cycleVars, reportVars, col, reconVars, checkVars, extractVars>>

\* add-all-missing-columns.py for a table whose one missing column is col.
PrintMissingColumn ==
    /\ "add-all-missing-columns" \notin DOMAIN mapped
    /\ mapped' = mapped @@
            ("add-all-missing-columns" :> <<PrintedColumn(AuditDescriptor(col))>>)
    /\ UNCHANGED <<declVars, cycleVars, reportVars, col, reconVars, checkVars, extractVars>>

RenderNext == WriteMissingColumn \/ GenerateTableDefinition \/ PrintMissingColumn

SpecRender == RenderInit /\ [][RenderNext]_vars

(***************************************************************************)
(* Code generators: properties                                             *)
(***************************************************************************)

\* The statements generator g has rendered for the column.
RenderedStatements(g) ==
    {mapped[g][i] : i \in {j \in DOMAIN mapped[g] : mapped[g][j].kind = "stmt"}}

HasDefault == col.column_default # NoneStr

GeneratedDefault == col.column_default = "gen_random_uuid()"

TimestampDefault == col.column_default \in {"now()", "CURRENT_TIMESTAMP"}

\* The default matches none of the patterns: random UUID, current
\* timestamp, number, boolean, quoted string.
Unclassified ==
    /\ HasDefault
    /\ col.column_default \in {"nextval('seq'::regclass)", "NULL"}

\* C14: for a column whose default expression cannot be classified no code
\* generator emits a statement.
C14_NoStatementForUnclassifiedDefault ==
    \A g \in DOMAIN mapped \cap
             {"complete-drizzle-from-db", "add-missing-tables-to-schemas"} :
        Unclassified => RenderedStatements(g) = {}

\* Default modifiers that embed a value as a literal, quoted or bare.
EmbeddedLiterals ==
    {".default('0')", ".default('true')", ".default('false')",
     ".default('draft')", ".default('')", ".default('NULL')",
     ".default(0)", ".default(true)", ".default(false)"}

\* C15: the statement of a column with a non-empty default that is neither
\* a generated UUID nor a generated timestamp carries a default modifier
\* that embeds the default as a literal; none is rendered without a default
\* modifier.
C15_OtherDefaultsEmbedded ==
    \A g \in DOMAIN mapped \cap
             {"complete-drizzle-from-db", "add-missing-tables-to-schemas"} :
        (HasDefault /\ ~GeneratedDefault /\ ~TimestampDefault) =>
            \A st \in RenderedStatements(g) :
                \E j \in DOMAIN st.modifiers : st.modifiers[j] \in EmbeddedLiterals

\* C16: the code generators that render defaults render a now() /
\* CURRENT_TIMESTAMP default of a timestamptz column and of a plain
\* timestamp column with defaultNow, and only the timestamptz type carries
\* the time-zone qualifier.
C16_DefaultNowOnBothTimestamps ==
    \A g \in DOMAIN mapped \cap
             {"complete-drizzle-from-db", "add-missing-tables-to-schemas"} :
        (col.udt_name \in {"timestamptz", "timestamp"} /\ TimestampDefault) =>
            /\ RenderedStatements(g) # {}
            /\ \A st \in RenderedStatements(g) :
                /\ \E j \in DOMAIN st.modifiers : st.modifiers[j] = ".defaultNow()"
                /\ TokenOf(st.def) =
                    (IF col.udt_name = "timestamptz" THEN "timestamp_tz"
                     ELSE "timestamp")

\* The token the type mapping assigns to a catalog udt name.
TokenOfUdt(udt) ==
    TokenOf(map_type([name |-> 1, data_type |-> DataTypeOf(udt),
                      udt_name |-> udt]))

\* C23: the type token add-all-missing-columns generates for a missing
\* column it reads from the audit report is the token the type mapping
\* assigns to the column's catalog udt name: boolean for bool, timestamp_tz
\* for timestamptz, varchar for varchar, integer for int4.
C23_PipelineTokenFromUdtName ==
    "add-all-missing-columns" \in DOMAIN mapped =>
        \A st \in RenderedStatements("add-all-missing-columns") :
            TokenOf(st.def) = TokenOfUdt(col.udt_name)

(***************************************************************************)
(* Inputs of the column checks: the catalog dump and the schema files      *)
(***************************************************************************)

\* A line of /tmp/db_columns_full.txt split on '|': the ten catalog fields
\* and the number of parts the split gave.
CatalogLine(t, c, nparts) ==
    [nparts |-> nparts, table |-> t, name |-> c.name, position |-> c.position,
     data_type |-> c.data_type, char_max_length |-> c.char_max_length,
     numeric_precision |-> c.numeric_precision,
     numeric_scale |-> c.numeric_scale,
     is_nullable |-> IF c.is_nullable THEN "YES" ELSE "NO",
     column_default |-> c.column_default, udt_name |-> c.udt_name]

\* The parts a complete line has (the checks test len(parts) >= 10).
FieldsPerLine == 10

\* A column line of a table declaration: ident: type("name") or
\* ident: type('name').
ColumnLine(n, quote) == [name |-> n, quote |-> quote]

\* export const <variable_name> = pgTable("<table_name>", { <lines> });
TableDecl(t, lines) == [variable_name |-> t, table_name |-> t, lines |-> lines]

RECURSIVE Flatten(_)
Flatten(qq) == IF qq = <<>> THEN <<>> ELSE Head(qq) \o Flatten(Tail(qq))

\* Every column line of a file, in text order.
FileLines(content) == Flatten([i \in DOMAIN content |-> content[i].lines])

\* The column lists a table of the model has in the database dump.
DumpColumnOrders == {<<>>, <<1>>, <<1, 2>>}

\* The column lines a table declaration of the model has.
DeclLines ==
    {<<>>, <<ColumnLine(1, "dq")>>,
     <<ColumnLine(1, "dq"), ColumnLine(2, "dq")>>,
     <<ColumnLine(1, "dq"), ColumnLine(3, "sq")>>}

\* The schema files of the model and the tables each one declares: file 1
\* declares tables 1 and 2, file 2 declares table 3.
SCHEMA_FILE_TO_TABLES ==
    <<[file |-> 1, tables |-> <<1, 2>>], [file |-> 2, tables |-> <<3>>]>>

SchemaTables == {1, 2, 3}

\* The dump and the schema directory: dump[t] the columns of t in the
\* database, decl[t] the column lines of its declaration, exists the files
\* that are there.
Files(dump, decl, exists) ==
    /\ db_lines = Flatten([t \in 1..3 |->
            [i \in DOMAIN dump[t] |->
                CatalogLine(t, DbColumn(dump[t][i], i), FieldsPerLine)]])
    /\ schema_files = [f \in exists |->
            LET ts == SCHEMA_FILE_TO_TABLES[f].tables
            IN  [i \in DOMAIN ts |-> TableDecl(ts[i], decl[ts[i]])]]

FilesInit ==
    \E dump \in [SchemaTables -> DumpColumnOrders],
       decl \in [SchemaTables -> DeclLines],
       exists \in {{1}, {1, 2}} :
        Files(dump, decl, exists)

\* defaultdict(list) grouping: the rows of one table, in line order.
RowsOf(rows, t) == SelectSeq(rows, LAMBDA r : r.table = t)

(***************************************************************************)
(* Column audit: audit-missing-columns.py                                  *)
(***************************************************************************)

\* load_db_columns: lines with fewer than ten parts are dropped.
audit_load_db_columns(lines) ==
    LET kept == SelectSeq(lines, LAMBDA l : l.nparts >= FieldsPerLine)
        entry(l) == [table |-> l.table, name |-> l.name, position |-> l.position,
                     data_type |-> l.data_type,
                     is_nullable |-> (l.is_nullable = "YES"),
                     column_default |-> l.column_default]
    IN  [i \in DOMAIN kept |-> entry(kept[i])]

\* db_columns.get(table, []).
audit_db_columns(table) == RowsOf(audit_load_db_columns(db_lines), table)

\* extract_drizzle_columns: the names of all double-quoted column lines of
\* the file, whatever table they belong to.
extract_drizzle_columns(content) ==
    {l.name : l \in {x \in Range(FileLines(content)) : x.quote = "dq"}}

\* A report whose table counter is not reset.
ReportWithStaleTotal ==
    [total_tables |-> 1, tables_complete |-> 0, tables_incomplete |-> 0,
     total_missing_columns |-> 0, details |-> NoCalls]

\* Lines 104-110.
EmptyReport ==
    [total_tables |-> 0, tables_complete |-> 0, tables_incomplete |-> 0,
     total_missing_columns |-> 0, details |-> NoCalls]

AuditInit ==
    /\ MapIdle /\ ReconIdle /\ VerifyIdle /\ ExtractIdle /\ ReportsIdle /\ DeclareIdle /\ CycleIdle
    /\ FilesInit
    /\ a_pc = "file"
    /\ files_todo = SCHEMA_FILE_TO_TABLES
    /\ tables_todo = <<>>
    /\ drizzle_columns = {}
    /\ report = EmptyReport
    /\ printed = NoCalls

\* Lines 112-119: the next schema file; a file that is not there is skipped.
AuditNextFile ==
    /\ a_pc = "file"
    /\ files_todo # <<>>
    /\ LET f == Head(files_todo)
       IN  IF f.file \notin DOMAIN schema_files
           THEN /\ files_todo' = Tail(files_todo)
                /\ UNCHANGED <<a_pc, tables_todo, drizzle_columns>>
           ELSE /\ a_pc' = "table"
                /\ tables_todo' = f.tables
                /\ drizzle_columns' = extract_drizzle_columns(schema_files[f.file])
                /\ UNCHANGED files_todo
    /\ UNCHANGED <<declVars, cycleVars, reportVars, report, printed, fsVars, mapVars, reconVars, verifyVars,
                   extractVars>>

\* Lines 121-144: one table of the current file.
AuditTable ==
    /\ a_pc = "table"
    /\ tables_todo # <<>>
    /\ LET f == Head(files_todo)
           table == Head(tables_todo)
           found == drizzle_columns
           rows == audit_db_columns(table)
           db_names == {r.name : r \in Range(rows)}
           miss == db_names \ found
       IN  /\ UNCHANGED drizzle_columns
           /\ IF miss # {}
              THEN /\ report' =
                        [report EXCEPT
                            !.total_tables = @ + 1,
                            !.tables_incomplete = @ + 1,
                            !.total_missing_columns = @ + Cardinality(miss),
                            !.details = [u \in (DOMAIN @) \ {table} |-> @[u]] @@
                                (table :>
                                    [file |-> f.file,
                                     db_columns |-> Cardinality(db_names),
                                     drizzle_columns |-> Cardinality(found),
                                     missing_count |-> Cardinality(miss),
                                     missing_columns |-> SortedSeq(miss),
                                     missing_with_types |->
                                        SelectSeq(rows, LAMBDA r : r.name \in miss)])]
                   /\ printed' = [u \in (DOMAIN printed) \ {table} |-> printed[u]]
                                    @@ (table :> "incomplete")
              ELSE /\ report' = [report EXCEPT !.total_tables = @ + 1,
                                               !.tables_complete = @ + 1]
                   /\ printed' = [u \in (DOMAIN printed) \ {table} |-> printed[u]]
                                    @@ (table :> "Complete")
           /\ tables_todo' = Tail(tables_todo)
           /\ IF Tail(tables_todo) = <<>>
              THEN a_pc' = "file" /\ files_todo' = Tail(files_todo)
              ELSE UNCHANGED <<a_pc, files_todo>>
    /\ UNCHANGED <<declVars, cycleVars, reportVars, fsVars, mapVars, reconVars, verifyVars, extractVars>>

\* Lines 146-159: the report is saved.
AuditSave ==
    /\ a_pc = "file"
    /\ files_todo = <<>>
    /\ a_pc' = "done"
    /\ UNCHANGED <<declVars, cycleVars, reportVars, files_todo, tables_todo, drizzle_columns, report, printed,
                   fsVars, mapVars, reconVars, verifyVars, extractVars>>

AuditNext == AuditNextFile \/ AuditTable \/ AuditSave

SpecAudit == AuditInit /\ [][AuditNext]_vars

(***************************************************************************)
(* Exact check: verify-columns-exact.py                                    *)
(***************************************************************************)

\* load_db_columns: table -> set of column names of the complete lines.
verify_load_db_columns(lines) ==
    LET kept == SelectSeq(lines, LAMBDA l : l.nparts >= FieldsPerLine)
    IN  [t \in {l.table : l \in Range(kept)} |->
            {l.name : l \in {x \in Range(kept) : x.table = t}}]

\* extract_columns_from_drizzle_file: table_pattern runs from the first
\* pgTable( of the file to its last closing brace, so the one match carries
\* the name of the first table and every column line of the file, in
\* either quoting.
extract_columns_from_drizzle_file(content) ==
    IF content = <<>> THEN NoCalls
    ELSE (Head(content).table_name :>
            {l.name : l \in Range(FileLines(content))})

\* SCHEMA_FILES.keys().
SCHEMA_FILES == <<1, 2>>

VerifyInit ==
    /\ MapIdle /\ ReconIdle /\ AuditIdle /\ ExtractIdle /\ ReportsIdle /\ DeclareIdle /\ CycleIdle
    /\ FilesInit
    /\ v_pc = "files"
    /\ files_todo = SCHEMA_FILES
    /\ tables_todo = <<>>
    /\ printed = NoCalls
    /\ all_drizzle_columns = NoCalls
    /\ tables_with_issues = 0
    /\ total_missing_columns = 0

\* dict.update: the entries of b win.
Update(a, b) == b @@ a

\* Lines 126-130: one schema file is read when it exists; after the last
\* one the tables in both are listed (lines 138-146).
VerifyLoadFile ==
    /\ v_pc = "files"
    /\ files_todo # <<>>
    /\ LET f == Head(files_todo)
           loaded == IF f \in DOMAIN schema_files
                     THEN Update(all_drizzle_columns,
                            extract_columns_from_drizzle_file(schema_files[f]))
                     ELSE all_drizzle_columns
       IN  /\ all_drizzle_columns' = loaded
           /\ files_todo' = Tail(files_todo)
           /\ IF Tail(files_todo) = <<>>
              THEN /\ v_pc' = "tables"
                   /\ tables_todo' = SortedSeq(
                        DOMAIN verify_load_db_columns(db_lines) \cap DOMAIN loaded)
              ELSE UNCHANGED <<v_pc, tables_todo>>
    /\ UNCHANGED <<declVars, cycleVars, reportVars, tables_with_issues, total_missing_columns, printed, fsVars,
                   auditVars, mapVars, reconVars, extractVars>>

\* Lines 146-166: one table of sorted(tables_in_both).
VerifyTable ==
    /\ v_pc = "tables"
    /\ tables_todo # <<>>
    /\ LET table == Head(tables_todo)
           db_names == verify_load_db_columns(db_lines)[table]
           drizzle_cols == all_drizzle_columns[table]
           miss == db_names \ drizzle_cols
           extra == drizzle_cols \ db_names
       IN  /\ IF miss # {} \/ extra # {}
              THEN /\ tables_with_issues' = tables_with_issues + 1
                   /\ total_missing_columns' =
                        total_missing_columns + Cardinality(miss)
                   /\ printed' = (table :> "issues") @@ printed
              ELSE UNCHANGED <<tables_with_issues, total_missing_columns, printed>>
           /\ tables_todo' = Tail(tables_todo)
    /\ UNCHANGED <<declVars, cycleVars, reportVars, v_pc, all_drizzle_columns, files_todo, fsVars, auditVars,
                   mapVars, reconVars, extractVars>>

\* Lines 168-183: the summary.
VerifySummary ==
    /\ v_pc = "tables"
    /\ tables_todo = <<>>
    /\ v_pc' = "done"
    /\ UNCHANGED <<declVars, cycleVars, reportVars, all_drizzle_columns, tables_with_issues,
                   total_missing_columns, loopVars, fsVars, auditVars,
                   mapVars, reconVars, extractVars>>

VerifyNext == VerifyLoadFile \/ VerifyTable \/ VerifySummary

SpecVerify == VerifyInit /\ [][VerifyNext]_vars

(***************************************************************************)
(* Column checks: properties                                               *)
(***************************************************************************)

\* The column names the dump has for a table.
DumpNames(t) ==
    {l.name : l \in {x \in Range(db_lines) : x.table = t}}

\* The file that SCHEMA_FILE_TO_TABLES gives a table.
FileOf(t) ==
    LET i == CHOOSE j \in DOMAIN SCHEMA_FILE_TO_TABLES :
                t \in Range(SCHEMA_FILE_TO_TABLES[j].tables)
    IN  SCHEMA_FILE_TO_TABLES[i].file

AuditedTables == {t \in SchemaTables : FileOf(t) \in DOMAIN schema_files}

\* The column names declared in the declaration of table t itself.
DeclaredIn(t) ==
    UNION {{l.name : l \in Range(d.lines)} :
            d \in {x \in Range(schema_files[FileOf(t)]) : x.table_name = t}}

\* C3: in the column audit the missing columns reported for a table are its
\* database columns that are not declared in that same table, a column
\* declared only in another table of the file does not count as present,
\* and a table is reported Complete only if each of its database columns is
\* declared in it.
C3_AuditMissingPerTable ==
    a_pc = "done" =>
        \A t \in AuditedTables :
            LET expect == DumpNames(t) \ DeclaredIn(t)
            IN  /\ printed[t] = "Complete" => expect = {}
                /\ expect # {} =>
                    /\ t \in DOMAIN report.details
                    /\ Range(report.details[t].missing_columns) = expect

\* C4: a table that has no missing column is never counted as a table with
\* issues, whatever columns the declaration has beyond the database's.
C4_ExtraColumnsAdvisory ==
    v_pc = "done" =>
        /\ \A t \in DOMAIN printed :
            printed[t] = "issues" =>
                verify_load_db_columns(db_lines)[t] \ all_drizzle_columns[t] # {}
        /\ tables_with_issues =
            Cardinality({t \in DOMAIN verify_load_db_columns(db_lines)
                                \cap DOMAIN all_drizzle_columns :
                verify_load_db_columns(db_lines)[t] \ all_drizzle_columns[t] # {}})

\* The tables main has processed so far.
AuditProcessed == DOMAIN printed

\* The database columns of t that its schema file does not declare.
AuditMissingOf(t) ==
    {r.name : r \in Range(audit_db_columns(t))}
        \ extract_drizzle_columns(schema_files[FileOf(t)])

RECURSIVE SumMissingCount(_, _)
SumMissingCount(details, S) ==
    IF S = {} THEN 0
    ELSE LET t == CHOOSE x \in S : TRUE
         IN  details[t].missing_count + SumMissingCount(details, S \ {t})

\* C26: in the column audit, after any number of tables, total_tables is
\* tables_complete + tables_incomplete, the keys of details are exactly the
\* tables counted incomplete, and total_missing_columns is the sum of
\* missing_count over details.
C26_AuditCountersConsistent ==
    a_pc # "idle" =>
        /\ report.total_tables = report.tables_complete + report.tables_incomplete
        /\ report.total_tables = Cardinality(AuditProcessed)
        /\ DOMAIN report.details =
                {t \in AuditProcessed : AuditMissingOf(t) # {}}
        /\ report.tables_incomplete = Cardinality(DOMAIN report.details)
        /\ \A t \in DOMAIN report.details :
                report.details[t].missing_count = Cardinality(AuditMissingOf(t))
        /\ report.total_missing_columns =
                SumMissingCount(report.details, DOMAIN report.details)

\* An audit that has ended with a complete table, two incomplete ones and
\* three missing columns.
C26_Witness ==
    /\ a_pc = "done"
    /\ report.tables_complete = 1
    /\ report.tables_incomplete = 2
    /\ report.total_missing_columns = 3

(***************************************************************************)
(* Database extractor: extract-complete-db-architecture.py                 *)
(***************************************************************************)

\* The per-table categories in the order the script queries them, and the
\* number of fields a row of each needs (lines 91, 130, 169, 204, 233).
Categories == <<"columns", "pks", "fks", "uniques", "indexes">>

Required(cat) ==
    CASE cat = "columns" -> FieldsPerLine
      [] cat = "fks" -> 7
      [] cat = "enums" -> 2
      [] OTHER -> 3

\* A row of a constraint, index or enum result: the table (or enum) it
\* names, a key and the number of fields the split gave.
Row(t, k, nfields) == [table |-> t, key |-> k, nparts |-> nfields]

\* A result row of each category, complete or one field short.
SampleRow(cat, t, k, short) ==
    LET n == IF short THEN Required(cat) - 1 ELSE Required(cat)
    IN  IF cat = "columns" THEN CatalogLine(t, DbColumn(k, k), n)
        ELSE Row(t, k, n)

\* What the column query can return: a row for columns 1 and 2 of table 1
\* and for column 1 of relation 3 (a view), each absent, complete or short.
RowStates == {"absent", "ok", "short"}

ColumnRows(s11, s12, s31) ==
    LET one(t, k, st) == IF st = "absent" THEN <<>>
                         ELSE <<SampleRow("columns", t, k, st = "short")>>
    IN  one(1, 1, s11) \o one(1, 2, s12) \o one(3, 1, s31)

ExtractInit ==
    /\ MapIdle /\ ReconIdle /\ ChecksIdle /\ ReportsIdle /\ DeclareIdle /\ CycleIdle
    /\ \E tabs \in {<<1>>, <<1, 2>>}, s11 \in RowStates, s12 \in RowStates,
          s31 \in RowStates, pkshort \in BOOLEAN :
        catalog = [tables |-> tabs,
                   columns |-> ColumnRows(s11, s12, s31),
                   pks |-> <<SampleRow("pks", 1, 1, pkshort)>>,
                   fks |-> <<>>,
                   uniques |-> <<SampleRow("uniques", 1, 2, FALSE)>>,
                   indexes |-> <<SampleRow("indexes", 1, 1, FALSE)>>,
                   enums |-> <<SampleRow("enums", 1, 1, FALSE)>>]
    /\ x_pc = "tables"
    /\ failed = {}
    /\ all_tables = <<>>
    /\ by_table = NoCalls
    /\ architecture = [database |-> "geniuserp", statistics |-> NoCalls,
                       enums |-> NoCalls, tables |-> NoCalls]
    /\ artifacts = NoCalls
    /\ x_printed = NoCalls

\* run_psql_query followed by parse_table_output: the lines of stdout; a
\* failed call leaves stdout empty and its return code is not looked at.
run_psql_query(query, ok) == IF ok THEN catalog[query] ELSE <<>>

\* The loop of each section: rows with enough fields are grouped by table.
GroupByTable(rows, need) ==
    LET kept == SelectSeq(rows, LAMBDA r : r.nparts >= need)
    IN  [t \in {r.table : r \in Range(kept)} |-> RowsOf(kept, t)]

\* Lines 93-103: the descriptor kept for a column row.
ColumnDescriptor(l) ==
    [name |-> l.name, position |-> l.position, data_type |-> l.data_type,
     char_max_length |-> l.char_max_length,
     numeric_precision |-> l.numeric_precision,
     numeric_scale |-> l.numeric_scale,
     is_nullable |-> (l.is_nullable = "YES"),
     column_default |-> l.column_default, udt_name |-> l.udt_name]

RECURSIVE SumLen(_, _)
SumLen(f, S) ==
    IF S = {} THEN 0
    ELSE LET t == CHOOSE x \in S : TRUE
         IN  Len(f[t]) + SumLen(f, S \ {t})

\* sum(len(v) for v in d.values()).
TotalRows(f) == SumLen(f, DOMAIN f)

NextSection(cat) ==
    CASE cat = "columns" -> "pks"
      [] cat = "pks" -> "fks"
      [] cat = "fks" -> "uniques"
      [] cat = "uniques" -> "indexes"
      [] cat = "indexes" -> "enums"

Channel(query, ok) == IF ok THEN failed ELSE failed \cup {query}

\* Lines 51-61.
QueryTables(ok) ==
    /\ x_pc = "tables"
    /\ all_tables' = run_psql_query("tables", ok)
    /\ x_printed' = ("tables" :> Len(run_psql_query("tables", ok))) @@ x_printed
    /\ failed' = Channel("tables", ok)
    /\ x_pc' = "columns"
    /\ UNCHANGED <<declVars, cycleVars, reportVars, catalog, by_table, architecture, artifacts, mapVars,
                   reconVars, checkVars>>

\* Lines 68-105.
QueryColumns(ok) ==
    /\ x_pc = "columns"
    /\ LET g == GroupByTable(run_psql_query("columns", ok), Required("columns"))
           cols == [t \in DOMAIN g |->
                        [i \in DOMAIN g[t] |-> ColumnDescriptor(g[t][i])]]
       IN  /\ by_table' = ("columns" :> cols) @@ by_table
           /\ x_printed' = ("columns" :> TotalRows(cols)) @@ x_printed
    /\ failed' = Channel("columns", ok)
    /\ x_pc' = NextSection("columns")
    /\ UNCHANGED <<declVars, cycleVars, reportVars, catalog, all_tables, architecture, artifacts, mapVars,
                   reconVars, checkVars>>

\* Lines 112-239: the primary-key, foreign-key, unique and index sections.
QueryConstraints(ok) ==
    /\ x_pc \in {"pks", "fks", "uniques", "indexes"}
    /\ LET g == GroupByTable(run_psql_query(x_pc, ok), Required(x_pc))
       IN  /\ by_table' = (x_pc :> g) @@ by_table
           /\ x_printed' = (x_pc :> TotalRows(g)) @@ x_printed
    /\ failed' = Channel(x_pc, ok)
    /\ x_pc' = NextSection(x_pc)
    /\ UNCHANGED <<declVars, cycleVars, reportVars, catalog, all_tables, architecture, artifacts, mapVars,
                   reconVars, checkVars>>

\* Lines 246-271.
QueryEnums(ok) ==
    /\ x_pc = "enums"
    /\ LET kept == SelectSeq(run_psql_query("enums", ok),
                             LAMBDA r : r.nparts >= Required("enums"))
       IN  /\ architecture' = [architecture EXCEPT !.enums =
                    [e \in {r.table : r \in Range(kept)} |-> <<e>>]]
           /\ x_printed' = ("enums" :> Cardinality({r.table : r \in Range(kept)}))
                                @@ x_printed
    /\ failed' = Channel("enums", ok)
    /\ x_pc' = "build"
    /\ UNCHANGED <<declVars, cycleVars, reportVars, catalog, all_tables, by_table, artifacts, mapVars,
                   reconVars, checkVars>>

\* d.get(table, []).
GetRows(f, t) == IF t \in DOMAIN f THEN f[t] ELSE <<>>

\* Lines 278-308.
BuildArchitecture ==
    /\ x_pc = "build"
    /\ architecture' = [architecture EXCEPT
            !.tables = [t \in Range(all_tables) |->
                [name |-> t,
                 columns |-> GetRows(by_table["columns"], t),
                 primary_keys |-> GetRows(by_table["pks"], t),
                 foreign_keys |-> GetRows(by_table["fks"], t),
                 unique_constraints |-> GetRows(by_table["uniques"], t),
                 indexes |-> GetRows(by_table["indexes"], t),
                 statistics |->
                    [column_count |-> Len(GetRows(by_table["columns"], t)),
                     pk_count |-> Len(GetRows(by_table["pks"], t)),
                     fk_count |-> Len(GetRows(by_table["fks"], t)),
                     unique_count |-> Len(GetRows(by_table["uniques"], t)),
                     index_count |-> Len(GetRows(by_table["indexes"], t))]]],
            !.statistics =
                [total_tables |-> Len(all_tables),
                 total_columns |-> TotalRows(by_table["columns"]),
                 total_enums |-> Cardinality(DOMAIN architecture.enums),
                 total_primary_keys |-> TotalRows(by_table["pks"]),
                 total_foreign_keys |-> TotalRows(by_table["fks"]),
                 total_unique_constraints |-> TotalRows(by_table["uniques"]),
                 total_indexes |-> TotalRows(by_table["indexes"])]]
    /\ x_pc' = "save"
    /\ UNCHANGED <<declVars, cycleVars, reportVars, catalog, failed, all_tables, by_table, artifacts, x_printed,
                   mapVars, reconVars, checkVars>>

\* Lines 313-322: both variants of the snapshot are written.
SaveSnapshot ==
    /\ x_pc = "save"
    /\ artifacts' = ("DB_architecture.json" :> architecture) @@
                    ("DB_architecture_compact.json" :> architecture)
    /\ x_pc' = "done"
    /\ UNCHANGED <<declVars, cycleVars, reportVars, catalog, failed, all_tables, by_table, architecture,
                   x_printed, mapVars, reconVars, checkVars>>

ExtractNext ==
    \/ \E ok \in BOOLEAN : QueryTables(ok)
    \/ \E ok \in BOOLEAN : QueryColumns(ok)
    \/ \E ok \in BOOLEAN : QueryConstraints(ok)
    \/ \E ok \in BOOLEAN : QueryEnums(ok)
    \/ BuildArchitecture
    \/ SaveSnapshot

SpecExtract == ExtractInit /\ [][ExtractNext]_vars

(***************************************************************************)
(* Database extractor: properties                                          *)
(***************************************************************************)

\* C7: when a catalog query has failed, the run writes no snapshot
\* artifact, neither DB_architecture.json nor its compact variant.
C7_NoArtifactAfterFailure ==
    failed # {} => DOMAIN artifacts = {}

\* The rows a query returned to the run.
Returned(cat) == IF cat \in failed THEN <<>> ELSE catalog[cat]

ShortRows(cat) ==
    Len(SelectSeq(Returned(cat), LAMBDA r : r.nparts < Required(cat)))

\* What the run's output says about a category: the one count printed for
\* it, and the count of skipped rows if the output carries one.
Surfaced(cat) ==
    [accepted |-> x_printed[cat]] @@
    (IF "skipped_rows" \in DOMAIN architecture.statistics
     THEN [skipped |-> architecture.statistics.skipped_rows]
     ELSE NoCalls)

\* C8: a row with fewer fields than its category requires is left out
\* without aborting, and the skipped rows are counted and surfaced, so that
\* rows in the result = rows accepted + rows counted as skipped.
C8_SkippedRowsCounted ==
    x_pc = "done" /\ failed = {} =>
        \A i \in DOMAIN Categories :
            LET cat == Categories[i]
            IN  /\ TotalRows(by_table[cat]) = Len(Returned(cat)) - ShortRows(cat)
                /\ ShortRows(cat) > 0 =>
                    /\ "skipped" \in DOMAIN Surfaced(cat)
                    /\ Len(Returned(cat)) =
                        Surfaced(cat).accepted + Surfaced(cat).skipped

\* The sum of one per-table statistic over the tables of the snapshot.
RECURSIVE SumStatistic(_, _, _)
SumStatistic(tables, field, S) ==
    IF S = {} THEN 0
    ELSE LET t == CHOOSE x \in S : TRUE
         IN  tables[t].statistics[field] + SumStatistic(tables, field, S \ {t})

SnapshotSum(field) ==
    SumStatistic(architecture.tables, field, DOMAIN architecture.tables)

\* C27: in the snapshot every aggregate statistic is the sum of the
\* matching per-table statistic over the snapshot's tables (columns,
\* primary keys, foreign keys, unique constraints, indexes), also when the
\* catalog returns rows for a relation that is not a base table. Runs in
\* which a query failed are left aside.
C27_AggregatesAreSums ==
    (x_pc \in {"save", "done"} /\ failed = {}) =>
        /\ architecture.statistics.total_columns = SnapshotSum("column_count")
        /\ architecture.statistics.total_primary_keys = SnapshotSum("pk_count")
        /\ architecture.statistics.total_foreign_keys = SnapshotSum("fk_count")
        /\ architecture.statistics.total_unique_constraints =
                SnapshotSum("unique_count")
        /\ architecture.statistics.total_indexes = SnapshotSum("index_count")

(***************************************************************************)
(* Naming report: generate-audit-reports.py generate_table_naming_report   *)
(***************************************************************************)

\* Longest output of grep in the model, in lines.
MaxGrepLines == 2

\* A line of grep's output, path:text. The text is a table declaration
\* (export const v = pgTable('t', ...), shape "decl"; with v: any, shape
\* "any"), a declaration that is commented out or a call of pgTable that
\* declares nothing. tail tells whether columns follow on the same line.
GrepLine(file, shape, var, table, tail) ==
    [file |-> file, shape |-> shape, var |-> var, table |-> table, tail |-> tail]

BlankLine == GrepLine(0, "blank", 0, 0, 0)

GrepLines ==
    {BlankLine}
    \cup {GrepLine(f, "decl", v, t, tail) :
            f \in {1, 2}, v \in {1, 2}, t \in {1, 2}, tail \in {0, 1}}
    \cup {GrepLine(f, sh, v, t, 0) :
            f \in {1, 2}, sh \in {"any", "comment", "call"},
            v \in {1, 2}, t \in {1, 2}}

RECURSIVE SeqsUpTo(_, _)
SeqsUpTo(S, n) ==
    IF n = 0 THEN {<<>>}
    ELSE SeqsUpTo(S, n - 1) \cup
         {Append(q, x) : q \in {r \in SeqsUpTo(S, n - 1) : Len(r) = n - 1},
                         x \in S}

\* Line 168: the pattern finds path:export const v = pgTable('t' on the
\* line.
NamingMatch(line) == line.shape \in {"decl", "any"}

\* Entries are made for every declaration, whatever its names.
differs_or_same(var_name, table_name) == TRUE

\* Line 175.
differs(var_name, table_name) == var_name # table_name

\* Lines 179-184.
RenameEntry(var_name, table_name) ==
    [old_variable_name |-> var_name, table_name |-> table_name,
     new_variable_name |-> table_name, action |-> "rename"]

\* Lines 152-162.
NamingInit ==
    /\ MapIdle /\ ReconIdle /\ ChecksIdle /\ ExtractIdle
    /\ DeclareIdle /\ CycleIdle
    /\ grep_stdout \in SeqsUpTo(GrepLines, MaxGrepLines)
    /\ naming_todo = grep_stdout
    /\ naming_report = [total_tables |-> 134, tables_with_correct_names |-> 12,
                        tables_to_rename |-> 122, mappings_by_file |-> NoCalls]
    /\ naming_file = NoCalls
    /\ n_pc = "scan"
    /\ listed_items = <<>>
    /\ listings = NoCalls

\* Lines 164-184: one line of result.stdout.
ScanLine ==
    /\ n_pc = "scan"
    /\ naming_todo # <<>>
    /\ LET line == Head(naming_todo)
           by_file == naming_report.mappings_by_file
       IN  /\ naming_todo' = Tail(naming_todo)
           /\ IF /\ line.shape # "blank"
                 /\ NamingMatch(line)
                 /\ differs(line.var, line.table)
              THEN naming_report' =
                    [naming_report EXCEPT !.mappings_by_file =
                        (line.file :>
                            ((IF line.file \in DOMAIN by_file
                              THEN by_file[line.file] ELSE <<>>)
                             \o <<RenameEntry(line.var, line.table)>>))
                        @@ by_file]
              ELSE UNCHANGED naming_report
    /\ UNCHANGED <<grep_stdout, naming_file, n_pc, listed_items, listings,
                   mapVars, reconVars, checkVars, extractVars, declVars, cycleVars>>

\* Lines 186-189: the report is dumped.
DumpNamingReport ==
    /\ n_pc = "scan"
    /\ naming_todo = <<>>
    /\ naming_file' = naming_report
    /\ n_pc' = "done"
    /\ UNCHANGED <<grep_stdout, naming_todo, naming_report, listed_items,
                   listings, mapVars, reconVars, checkVars, extractVars, declVars, cycleVars>>

NamingNext == ScanLine \/ DumpNamingReport

SpecNaming == NamingInit /\ [][NamingNext]_vars

(***************************************************************************)
(* Naming report: properties                                               *)
(***************************************************************************)

\* The line declares a table: it binds an identifier to pgTable('name'.
Declares(line) == line.shape \in {"decl", "any"}

\* The declarations of file f whose identifier is not their table name, in
\* the order grep printed them.
Misnamed(f) ==
    SelectSeq(grep_stdout,
              LAMBDA l : Declares(l) /\ l.file = f /\ l.var # l.table)

\* The rename entries the dumped report holds for file f.
Renames(f) ==
    IF f \in DOMAIN naming_file.mappings_by_file
    THEN naming_file.mappings_by_file[f] ELSE <<>>

ScannedDeclarations == SelectSeq(grep_stdout, Declares)

\* C30: in the naming report as written, tables_to_rename is the number of
\* rename entries over all files of mappings_by_file, and total_tables is
\* tables_with_correct_names + tables_to_rename, the number of declarations
\* scanned.
C30_NamingCountsMatchEntries ==
    n_pc = "done" =>
        /\ naming_file.tables_to_rename = TotalRows(naming_file.mappings_by_file)
        /\ naming_file.total_tables =
                naming_file.tables_with_correct_names
                    + naming_file.tables_to_rename
        /\ naming_file.total_tables = Len(ScannedDeclarations)

(***************************************************************************)
(* Report listings: db-analysis-comprehensive.py, verify-columns-exact.py, *)
(* verify-all-tables-columns.py                                            *)
(***************************************************************************)

\* Longest list a report is asked to print in the model.
MaxListed == 51

\* The display caps of the listings.
PopulatedCap == 20
OptionalEmptyCap == 50
EnumsCap == 30
EnumValuesCap == 5
OnlyDbCap == 10
ExactCap == 5
MissingCap == 8

\* What follows the items shown: a count of the items left out, three dots,
\* or nothing.
CountSuffix(n) == [kind |-> "count", n |-> n]
EllipsisSuffix == [kind |-> "ellipsis"]
NoSuffix == [kind |-> "none"]

\* A rendered listing: the items shown and what follows them. header is the
\* length of the whole list where the line above the listing prints it.
Listing(cap, shown, suffix, header) ==
    [cap |-> cap, shown |-> shown, suffix |-> suffix, header |-> header]

\* xs[:cap], then "... and N more" when len(xs) > cap.
CappedWithCount(xs, cap, header) ==
    Listing(cap, FirstN(xs, cap),
            IF Len(xs) > cap THEN CountSuffix(Len(xs) - cap) ELSE NoSuffix,
            header)

\* xs[:cap], then '...' when len(xs) > cap.
CappedWithEllipsis(xs, cap, header) ==
    Listing(cap, FirstN(xs, cap),
            IF Len(xs) > cap THEN EllipsisSuffix ELSE NoSuffix, header)

\* xs[:cap] and nothing else.
CappedBare(xs, cap, header) == Listing(cap, FirstN(xs, cap), NoSuffix, header)

ListingInit ==
    /\ MapIdle /\ ReconIdle /\ ChecksIdle /\ ExtractIdle
    /\ DeclareIdle /\ CycleIdle
    /\ grep_stdout = <<>>
    /\ naming_todo = <<>>
    /\ naming_report = NoCalls
    /\ naming_file = NoCalls
    /\ n_pc = "idle"
    /\ listed_items \in {[i \in 1..n |-> i] : n \in 0..MaxListed}
    /\ listings = NoCalls

Render(site, listing) ==
    /\ site \notin DOMAIN listings
    /\ listings' = (site :> listing) @@ listings
    /\ UNCHANGED <<grep_stdout, naming_todo, naming_report, naming_file, n_pc,
                   listed_items, mapVars, reconVars, checkVars, extractVars, declVars, cycleVars>>

\* db-analysis-comprehensive.py lines 202-209.
ListPopulatedTables ==
    /\ listed_items # <<>>
    /\ Render("populated_tables",
              CappedWithCount(listed_items, PopulatedCap, Len(listed_items)))

\* db-analysis-comprehensive.py lines 231-239.
ListOptionalEmptyTables ==
    /\ listed_items # <<>>
    /\ Render("optional_empty",
              CappedWithCount(listed_items, OptionalEmptyCap, None))

\* db-analysis-comprehensive.py lines 242-252, the enums.
ListEnums ==
    Render("enums", CappedWithCount(listed_items, EnumsCap, Len(listed_items)))

\* db-analysis-comprehensive.py lines 246-248, the values of one enum.
ListEnumValues ==
    Render("enumValues", CappedWithCount(listed_items, EnumValuesCap, None))

\* verify-all-tables-columns.py lines 120-126.
ListOnlyDb ==
    /\ listed_items # <<>>
    /\ Render("only_db",
              CappedWithCount(listed_items, OnlyDbCap, Len(listed_items)))

\* verify-all-tables-columns.py lines 145-150.
ListMissingColumns ==
    /\ listed_items # <<>>
    /\ Render("missing",
              CappedBare(listed_items, MissingCap, Len(listed_items)))

\* verify-columns-exact.py lines 160-161.
ListMissingExact ==
    /\ listed_items # <<>>
    /\ Render("missing_exact",
              CappedWithEllipsis(listed_items, ExactCap, Len(listed_items)))

\* verify-columns-exact.py lines 163-164.
ListExtraExact ==
    /\ listed_items # <<>>
    /\ Render("extra_exact",
              CappedWithEllipsis(listed_items, ExactCap, Len(listed_items)))

ListingNext ==
    \/ ListPopulatedTables
    \/ ListOptionalEmptyTables
    \/ ListEnums
    \/ ListEnumValues
    \/ ListOnlyDb
    \/ ListMissingColumns
    \/ ListMissingExact
    \/ ListExtraExact

SpecListing == ListingInit /\ [][ListingNext]_vars

(***************************************************************************)
(* Report listings: properties                                             *)
(***************************************************************************)

\* C19: a listing of more items than its cap shows exactly cap items, the
\* first ones, followed by a count of the omitted items equal to the total
\* minus the cap; none is cut short with no suffix or with a suffix that
\* has no count.
C19_CappedListingCountsOmitted ==
    \A site \in DOMAIN listings :
        Len(listed_items) > listings[site].cap =>
            /\ listings[site].shown =
                    SubSeq(listed_items, 1, listings[site].cap)
            /\ listings[site].suffix =
                    CountSuffix(Len(listed_items) - listings[site].cap)

(***************************************************************************)
(* Declaration extractor: extract-drizzle-architecture.py                  *)
(***************************************************************************)

\* The files of the schema directory, named in alphabetical order:
\* 1 core.schema.ts, 2 crm.schema.ts, 3 enums.ts, 4 index.ts, 5 users.ts.
EnumsTs == 3
IndexTs == 4
UsersTs == 5

\* Path.glob: the files of the directory whose name matches the pattern.
Glob(dir, pattern) ==
    SortedSeq({f \in DOMAIN dir :
                CASE pattern = "*.ts" -> TRUE
                  [] pattern = "*.schema.ts" -> f \in {1, 2}})

\* sorted() of a list, equal items kept.
RECURSIVE SortedList(_)
SortedList(q) ==
    IF q = <<>> THEN <<>>
    ELSE LET i == CHOOSE j \in DOMAIN q : \A k \in DOMAIN q : q[j] <= q[k]
         IN  <<q[i]>> \o SortedList(SubSeq(q, 1, i - 1) \o
                                    SubSeq(q, i + 1, Len(q)))

\* The option keys one comma-separated piece of a column line holds.
Opts(precision, scale, length) ==
    [precision |-> precision, scale |-> scale, length |-> length]

NoOpts == Opts(None, None, None)

\* A column line ident: ctor("name"...) or ident: ctor('name'...): pieces
\* is what follows the closing quote of the name, split at the commas, each
\* piece given by the option keys written in it; mods are the modifier
\* calls found on the line and default the argument of .default( ).
ColumnText(ident, ctor, name, quote, pieces, mods, default) ==
    [kind |-> "column", ident |-> ident, ctor |-> ctor, name |-> name,
     quote |-> quote, pieces |-> pieces, mods |-> mods, default |-> default]

CommentText == [kind |-> "comment"]

\* Lines 76-134: the descriptor of a column line; group 4 of the pattern,
\* [^,]*, is the first piece.
extract_column(line) ==
    LET options == Head(line.pieces)
    IN  [variable_name |-> line.ident,
         column_name |-> line.name,
         drizzle_type |-> line.ctor,
         is_primary_key |-> "primaryKey" \in line.mods,
         is_not_null |-> ".notNull()" \in line.mods,
         is_unique |-> ".unique()" \in line.mods,
         has_foreign_key |-> ".references(" \in line.mods,
         default_value |->
            IF ".default(" \in line.mods THEN line.default
            ELSE IF ".defaultNow()" \in line.mods THEN "now()"
            ELSE IF ".defaultRandom()" \in line.mods THEN "gen_random_uuid()"
            ELSE NoneStr,
         precision |-> options.precision,
         scale |-> options.scale,
         length |-> options.length]

\* Lines 48-161: comments and blank lines are skipped, every column line of
\* the block gives a descriptor, in text order. The declarations of the
\* model have no constraints block, so no index or constraint is found.
extract_table_from_block(var_name, table_name, block, file_name) ==
    LET column_lines == SelectSeq(block, LAMBDA l : l.kind = "column")
    IN  [variable_name |-> var_name,
         table_name |-> table_name,
         source_file |-> file_name,
         columns |-> [i \in DOMAIN column_lines |->
                        extract_column(column_lines[i])],
         indexes |-> <<>>,
         unique_constraints |-> <<>>,
         foreign_keys |-> <<>>]

\* Lines 163-193: the table declarations of a file, in text order.
extract_tables_from_file(content, file_name) ==
    LET decls == SelectSeq(content, LAMBDA d : "table_name" \in DOMAIN d)
    IN  [i \in DOMAIN decls |->
            extract_table_from_block(decls[i].variable_name,
                                     decls[i].table_name,
                                     decls[i].lines, file_name)]

\* Lines 18-46: enum name -> its descriptor.
extract_enums_from_file(content) ==
    LET decls == SelectSeq(content, LAMBDA d : "enum_name" \in DOMAIN d)
    IN  [e \in {decls[i].enum_name : i \in DOMAIN decls} |->
            LET d == decls[CHOOSE i \in DOMAIN decls :
                            /\ decls[i].enum_name = e
                            /\ \A j \in DOMAIN decls :
                                decls[j].enum_name = e => j <= i]
            IN  [variable_name |-> d.variable_name, values |-> d.values,
                 count |-> Len(d.values)]]

\* Lines 287-288: the dict of the tables by name; of two tables of one name
\* the later one stays.
TablesByName(all) ==
    [n \in {all[i].table_name : i \in DOMAIN all} |->
        all[CHOOSE i \in DOMAIN all :
                /\ all[i].table_name = n
                /\ \A j \in DOMAIN all : all[j].table_name = n => j <= i]]

\* The column lines of the model: a key, a numeric amount with precision
\* and scale, a varchar name with a length, and a second identifier bound
\* to the column name of the key.
IdText == ColumnText(1, "uuid", 1, "dq", <<NoOpts>>,
                     {"primaryKey", ".defaultRandom()"}, NoneStr)

AmountText == ColumnText(2, "numeric", 2, "dq",
                         <<NoOpts, Opts(MaxQualifier, None, None),
                           Opts(None, 1, None)>>, {}, NoneStr)

NameText == ColumnText(3, "varchar", 3, "sq",
                       <<NoOpts, Opts(None, None, MaxQualifier)>>,
                       {".notNull()", ".default("}, "''")

AliasText == ColumnText(4, "text", 1, "dq", <<NoOpts>>, {}, NoneStr)

\* The blocks a table declaration of the model has.
DeclTexts ==
    {<<>>, <<IdText>>, <<IdText, AmountText>>,
     <<IdText, CommentText, NameText>>, <<IdText, AliasText>>}

\* export const <name> = pgEnum('<name>', [values]).
EnumDecl(e, values) == [variable_name |-> e, enum_name |-> e, values |-> values]

\* The schema directories of the model: core.schema.ts declares nothing,
\* table 1 or tables 1 and 2; users.ts, when there, declares table 3 or
\* table 1 once more; enums.ts may be there; index.ts declares nothing.
Directories ==
    {[f \in {1, IndexTs} \cup opt |->
        CASE f = 1 -> core
          [] f = UsersTs -> users
          [] f = EnumsTs -> <<EnumDecl(1, <<1, 2>>)>>
          [] OTHER -> <<>>] :
        core \in {<<>>} \cup {<<TableDecl(1, x)>> : x \in DeclTexts}
                 \cup {<<TableDecl(1, x), TableDecl(2, y)>> :
                        x \in DeclTexts, y \in DeclTexts},
        users \in {<<TableDecl(t, z)>> : t \in {1, 3}, z \in DeclTexts},
        opt \in SUBSET {EnumsTs, UsersTs}}

\* Lines 237-245.
EmptyArchitecture ==
    [extracted_at |-> NoneStr, source |-> "Drizzle ORM Schema",
     statistics |-> NoCalls, enums |-> NoCalls, tables |-> NoCalls,
     relations |-> NoCalls, files |-> <<>>]

DeclareInit ==
    /\ MapIdle /\ ReconIdle /\ ExtractIdle /\ ReportsIdle /\ CycleIdle
    /\ AuditIdle /\ VerifyIdle
    /\ db_lines = <<>>
    /\ files_todo = <<>>
    /\ tables_todo = <<>>
    /\ printed = NoCalls
    /\ schema_files \in Directories
    /\ d_pc = "glob"
    /\ d_todo = <<>>
    /\ d_all_tables = <<>>
    /\ d_architecture = EmptyArchitecture

\* Lines 248-249: both patterns are globbed and index.ts is left out.
ListSchemaFiles(dir) ==
    SelectSeq(Glob(dir, "*.ts") \o Glob(dir, "*.schema.ts"),
              LAMBDA f : f # IndexTs)

\* Lines 248-258.
DeclGlob ==
    /\ d_pc = "glob"
    /\ d_todo' = SortedList(ListSchemaFiles(schema_files))
    /\ d_pc' = "scan"
    /\ UNCHANGED <<d_all_tables, d_architecture, cycleVars, reportVars,
                   mapVars, reconVars, checkVars, extractVars>>

\* Lines 258-284: one file of sorted(schema_files).
DeclScanFile ==
    /\ d_pc = "scan"
    /\ d_todo # <<>>
    /\ LET file_path == Head(d_todo)
           content == schema_files[file_path]
           tables == extract_tables_from_file(content, file_path)
       IN  /\ d_todo' = Tail(d_todo)
           /\ IF file_path = EnumsTs
              THEN /\ d_architecture' =
                        [d_architecture EXCEPT !.enums =
                            Update(@, extract_enums_from_file(content))]
                   /\ UNCHANGED d_all_tables
              ELSE IF tables # <<>>
              THEN /\ d_all_tables' = d_all_tables \o tables
                   /\ d_architecture' =
                        [d_architecture EXCEPT !.files =
                            Append(@, [name |-> file_path,
                                       tables_count |-> Len(tables),
                                       relations_count |-> 0])]
              ELSE UNCHANGED <<d_all_tables, d_architecture>>
    /\ UNCHANGED <<d_pc, cycleVars, reportVars, mapVars, reconVars,
                   checkVars, extractVars>>

RECURSIVE SumField(_, _, _)
SumField(f, field, S) ==
    IF S = {} THEN 0
    ELSE LET t == CHOOSE x \in S : TRUE
         IN  Len(f[t][field]) + SumField(f, field, S \ {t})

\* Lines 287-303: the tables by name and the statistics.
DeclBuild ==
    /\ d_pc = "scan"
    /\ d_todo = <<>>
    /\ LET tables == TablesByName(d_all_tables)
           enums == d_architecture.enums
       IN  d_architecture' =
            [d_architecture EXCEPT
                !.tables = tables,
                !.statistics =
                    [total_files |-> Len(d_architecture.files),
                     total_tables |-> Cardinality(DOMAIN tables),
                     total_columns |-> SumField(tables, "columns", DOMAIN tables),
                     total_enums |-> Cardinality(DOMAIN enums),
                     total_enum_values |-> SumField(enums, "values", DOMAIN enums),
                     total_indexes |-> SumField(tables, "indexes", DOMAIN tables),
                     total_unique_constraints |->
                        SumField(tables, "unique_constraints", DOMAIN tables),
                     total_relations |-> 0]]
    /\ d_pc' = "save"
    /\ UNCHANGED <<d_todo, d_all_tables, cycleVars, reportVars, mapVars,
                   reconVars, checkVars, extractVars>>

\* Lines 305-319: the architecture is stamped and dumped.
DeclSave ==
    /\ d_pc = "save"
    /\ d_architecture' = [d_architecture EXCEPT !.extracted_at = "now"]
    /\ d_pc' = "done"
    /\ UNCHANGED <<d_todo, d_all_tables, cycleVars, reportVars, mapVars,
                   reconVars, checkVars, extractVars>>

DeclareNext == DeclGlob \/ DeclScanFile \/ DeclBuild \/ DeclSave

SpecDeclare == DeclareInit /\ [][DeclareNext]_vars

\* Either extractor builds its model.
ModelsInit == ExtractInit \/ DeclareInit

ModelsNext == ExtractNext \/ DeclareNext

SpecModels == ModelsInit /\ [][ModelsNext]_vars

(***************************************************************************)
(* Declaration extractor and schema models: properties                     *)
(***************************************************************************)

\* The column names and the primary-key column names of the table
\* descriptors of the database model and of the declaration model.
DbDescriptors ==
    IF x_pc \in {"save", "done"}
    THEN {[columns |-> [i \in DOMAIN architecture.tables[t].columns |->
                            architecture.tables[t].columns[i].name],
           primary_keys |-> {pk.key :
                                pk \in Range(architecture.tables[t].primary_keys)}] :
            t \in DOMAIN architecture.tables}
    ELSE {}

DeclDescriptors ==
    IF d_pc \in {"save", "done"}
    THEN {[columns |-> [i \in DOMAIN d_architecture.tables[t].columns |->
                            d_architecture.tables[t].columns[i].column_name],
           primary_keys |-> {c.column_name :
                                c \in {x \in Range(d_architecture.tables[t].columns) :
                                        x.is_primary_key}}] :
            t \in DOMAIN d_architecture.tables}
    ELSE {}

\* C21: in the schema model either extractor produces, the column names of
\* a table descriptor are pairwise distinct and every primary-key column
\* name of a table is the name of one of its columns.
C21_ColumnsUniquePrimaryKeysDeclared ==
    \A d \in DbDescriptors \cup DeclDescriptors :
        /\ \A i, j \in DOMAIN d.columns :
            i # j => d.columns[i] # d.columns[j]
        /\ d.primary_keys \subseteq Range(d.columns)

\* The value of an option key as written on a column line: the value of
\* the piece that holds the key, None when no piece does.
WrittenOption(line, key) ==
    IF \E i \in DOMAIN line.pieces : line.pieces[i][key] # None
    THEN line.pieces[CHOOSE i \in DOMAIN line.pieces :
                        line.pieces[i][key] # None][key]
    ELSE None

\* The column lines of the declaration a scanned table came from.
SourceLines(t) ==
    LET content == schema_files[t.source_file]
        decl == content[CHOOSE i \in DOMAIN content :
                            /\ "table_name" \in DOMAIN content[i]
                            /\ content[i].table_name = t.table_name]
    IN  SelectSeq(decl.lines, LAMBDA l : l.kind = "column")

\* C22: for a column line numeric("col", { precision: P, scale: S }) or
\* varchar("col", { length: L }) the descriptor the extractor records has
\* precision P, scale S and length L.
C22_OptionsRecorded ==
    \A i \in DOMAIN d_all_tables :
        LET t == d_all_tables[i]
        IN  \A k \in DOMAIN t.columns :
                /\ t.columns[k].precision = WrittenOption(SourceLines(t)[k], "precision")
                /\ t.columns[k].scale = WrittenOption(SourceLines(t)[k], "scale")
                /\ t.columns[k].length = WrittenOption(SourceLines(t)[k], "length")

\* The files of the directory that declare a table.
DeclaringFiles ==
    {f \in DOMAIN schema_files \ {IndexTs, EnumsTs} :
        \E i \in DOMAIN schema_files[f] :
            "table_name" \in DOMAIN schema_files[f][i]}

\* C28: every schema file is scanned once: the files list has one entry
\* per file that declares a table and total_files is the number of those
\* files, files named *.schema.ts included.
C28_EachFileScannedOnce ==
    d_pc \in {"save", "done"} =>
        /\ Len(d_architecture.files) = Cardinality(DeclaringFiles)
        /\ {d_architecture.files[i].name : i \in DOMAIN d_architecture.files}
                = DeclaringFiles
        /\ d_architecture.statistics.total_files = Cardinality(DeclaringFiles)

(***************************************************************************)
(* Pipeline: audit-missing-columns.py, add-all-missing-columns.py, the     *)
(* generated statements inserted, audit-missing-columns.py again           *)
(***************************************************************************)

\* add-all-missing-columns.py line 29: the tables whose statements are
\* printed.
PrintedTables(details) == FirstN(ByCountDesc(DOMAIN details, details), TopN)

\* add-all-missing-columns.py lines 32-35: the lines printed for a table.
PrintedFor(info) ==
    [i \in DOMAIN info.missing_with_types |->
        PrintedColumn(info.missing_with_types[i])]

\* The text of a printed statement, name: dtype('name'), as a column line of
\* a declaration: the name is in single quotes.
TextOfPrinted(st) == ColumnLine(st.key, "sq")

\* The declarations of a file with the lines added to the declaration of
\* table t.
InsertLines(content, t, lines) ==
    [i \in DOMAIN content |->
        IF content[i].table_name = t
        THEN [content[i] EXCEPT !.lines = @ \o lines]
        ELSE content[i]]

\* The schema files after the statements printed for each table of ts have
\* been inserted in the table's declaration, in the file the report names.
RECURSIVE InsertPrintedFor(_, _, _)
InsertPrintedFor(files, details, ts) ==
    IF ts = <<>> THEN files
    ELSE LET t == Head(ts)
             f == details[t].file
             printedLines == PrintedFor(details[t])
             lines == [i \in DOMAIN printedLines |-> TextOfPrinted(printedLines[i])]
         IN  InsertPrintedFor([files EXCEPT ![f] = InsertLines(@, t, lines)],
                              details, Tail(ts))

\* add-all-missing-columns.py runs on the saved report, every statement it
\* printed is inserted, and the audit is started again.
InsertPrintedAndAuditAgain ==
    /\ a_pc = "done"
    /\ applied = NoCalls
    /\ DOMAIN report.details # {}
    /\ LET ts == PrintedTables(report.details)
       IN  /\ schema_files' = InsertPrintedFor(schema_files, report.details, ts)
           /\ applied' = [t \in Range(ts) |->
                            Range(report.details[t].missing_columns)]
    /\ a_pc' = "file"
    /\ files_todo' = SCHEMA_FILE_TO_TABLES
    /\ tables_todo' = <<>>
    /\ drizzle_columns' = {}
    /\ report' = EmptyReport
    /\ printed' = NoCalls
    /\ UNCHANGED <<db_lines, prev_total, verifyVars, declVars, reportVars,
                   mapVars, reconVars, extractVars>>

SpecPipeline == AuditInit /\ [][AuditNext \/ InsertPrintedAndAuditAgain]_vars

\* C24: once every statement add-all-missing-columns generated for a table
\* is inserted in the table's schema file, the next audit reports none of
\* those columns as missing for that table.
C24_AuditRecognizesGeneratedColumns ==
    (a_pc = "done" /\ applied # NoCalls) =>
        \A t \in DOMAIN applied :
            t \in DOMAIN report.details =>
                Range(report.details[t].missing_columns) \cap applied[t] = {}

(***************************************************************************)
(* Cycle: extract-drizzle-architecture.py, complete-drizzle-from-db.py,    *)
(* the generated statements inserted, extract-drizzle-architecture.py      *)
(***************************************************************************)

\* main of the declaration extractor, lines 258-276: the tables of the
\* files of todo, in order; enums.ts is not scanned for tables.
RECURSIVE ScanAll(_, _)
ScanAll(dir, todo) ==
    IF todo = <<>> THEN <<>>
    ELSE (IF Head(todo) = EnumsTs THEN <<>>
          ELSE extract_tables_from_file(dir[Head(todo)], Head(todo)))
         \o ScanAll(dir, Tail(todo))

\* DZ_architecture.json as a run of the declaration extractor on dir leaves
\* it (lines 248-288), as far as the reconciler reads it.
DzArchitectureOf(dir) ==
    [tables |-> TablesByName(ScanAll(dir, SortedList(ListSchemaFiles(dir))))]

\* complete-drizzle-from-db.py line 163: the text of a written statement,
\* name: ctor('name', { options })modifiers, as a column line.
TextOfStatement(st) ==
    ColumnText(st.key, st.def.ctor, st.def.name, "sq",
               IF st.def.precision # None
               THEN <<NoOpts, Opts(st.def.precision, None, None),
                      Opts(None, st.def.scale, None)>>
               ELSE IF st.def.length # None
               THEN <<NoOpts, Opts(None, None, st.def.length)>>
               ELSE IF st.def.tz THEN <<NoOpts, NoOpts>>
               ELSE <<NoOpts>>,
               {IF st.modifiers[i] \in {".notNull()", ".defaultNow()"}
                THEN st.modifiers[i] ELSE ".default(" :
                    i \in DOMAIN st.modifiers},
               IF \E i \in DOMAIN st.modifiers :
                    st.modifiers[i] \notin {".notNull()", ".defaultNow()"}
               THEN "literal" ELSE NoneStr)

\* The directory after each statement of stmts has been inserted in the
\* declaration of its table.
RECURSIVE InsertStatements(_, _)
InsertStatements(dir, stmts) ==
    IF stmts = <<>> THEN dir
    ELSE LET st == Head(stmts)
         IN  InsertStatements(
                [f \in DOMAIN dir |->
                    [i \in DOMAIN dir[f] |->
                        IF "table_name" \in DOMAIN dir[f][i]
                           /\ dir[f][i].table_name = st.table
                        THEN [dir[f][i] EXCEPT
                                !.lines = Append(@, TextOfStatement(st))]
                        ELSE dir[f][i]]],
                Tail(stmts))

\* A schema directory whose core.schema.ts declares the tables of decl with
\* the column lines given, next to index.ts.
CoreDirectory(decl) ==
    (1 :> [t \in DOMAIN decl |-> TableDecl(t, decl[t])]) @@ (IndexTs :> <<>>)

\* The declarations of the cycle: many tables with columns 1 and 2, each
\* declared complete, without column 2 or without columns; or NumTables
\* tables that have column 3, declared with some of their columns.
CycleInputs ==
    {[order |-> [t \in 1..WideTables |-> <<1, 2>>], decl |-> decl] :
        decl \in [1..WideTables -> {<<>>, <<IdText>>, <<IdText, AmountText>>}]}
    \cup
    {[order |-> order, decl |-> decl] :
        order \in [1..NumTables -> DefaultOrders],
        decl \in [1..NumTables ->
                    {<<>>, <<IdText>>, <<NameText>>, <<IdText, NameText>>,
                     <<IdText, AmountText, NameText>>}]}

\* The database model is loaded next to the declaration model extracted
\* from the schema directory.
CycleInit ==
    /\ MapIdle /\ ExtractIdle /\ ReportsIdle /\ DeclareIdle /\ CycleIdle
    /\ AuditIdle /\ VerifyIdle
    /\ db_lines = <<>>
    /\ files_todo = <<>>
    /\ tables_todo = <<>>
    /\ printed = NoCalls
    /\ \E inp \in CycleInputs :
        /\ schema_files = CoreDirectory(inp.decl)
        /\ db_arch = DbModel(DOMAIN inp.order, inp.order)
        /\ dz_arch = DzArchitectureOf(CoreDirectory(inp.decl))
    /\ pc = "tables"
    /\ missing_tables = {}
    /\ common_todo = <<>>
    /\ tables_with_missing_cols = NoCalls
    /\ total_missing_cols = 0
    /\ top5 = <<>>
    /\ fragment = <<>>
    /\ output_file = <<>>
    /\ suspended = NoRun

\* A run has ended with columns missing: every statement of the file it
\* left is inserted in the declaration of its table, the declaration model
\* is extracted again and the reconciler is started on it.
InsertAndExtractAgain ==
    /\ pc \in {"done", "crashed"}
    /\ total_missing_cols > 0
    /\ LET stmts == SelectSeq(output_file, LAMBDA it : it.kind = "stmt")
           dir == InsertStatements(schema_files, stmts)
       IN  /\ schema_files' = dir
           /\ Resume(Fresh(db_arch, DzArchitectureOf(dir)))
    /\ prev_total' = total_missing_cols
    /\ UNCHANGED <<db_lines, auditVars, verifyVars, loopVars, applied,
                   output_file, suspended, declVars, reportVars, mapVars,
                   extractVars>>

SpecCycle == CycleInit /\ [][Next \/ InsertAndExtractAgain]_vars

\* C25: a round of the cycle that starts with missing columns ends with
\* fewer: the total counted after the statements of a run were inserted and
\* the declarations extracted again is smaller than the total that run had
\* counted, whatever the number of tables with missing columns.
C25_CycleStrictlyDecreases ==
    (prev_total # None /\ pc \in {"write", "done", "crashed"}) =>
        total_missing_cols < prev_total

====
